---- MODULE Spec2Model ----
(***************************************************************************)
(* A model of the Ancora.ai clinical-trial matching service wrapper:       *)
(*   - the static code tables and the reverse indexes built from them      *)
(*     (src/src/ancora-mappings.ts),                                       *)
(*   - the criteria accumulator AncoraAPIQuery, its constructor, its       *)
(*     add* methods and toQuery (src/src/query.ts).                        *)
(* JavaScript exceptions are modelled as an outcome ("TypeError"), a       *)
(* missing property as the value Undefined, and the number NaN as the      *)
(* value NaN.                                                              *)
(***************************************************************************)
EXTENDS Integers, Sequences, FiniteSets, TLC

\* ------------------------------------------------------------------------
\* Bounds of the model
\* ------------------------------------------------------------------------

\* the largest number of add* operations (bundle entries scanned by the
\* constructor plus direct calls of add* on the constructed object)
MaxOps == 2

\* ------------------------------------------------------------------------
\* JavaScript values
\* ------------------------------------------------------------------------

\* a property that is not there (undefined)
Undefined == "<undefined>"
\* a property holding a value that is not a string (a number, a boolean)
NonString == "<non-string>"
\* null, for the fields of AncoraAPIQuery that start as null
Null == "<null>"
\* the number NaN (no computed age or radius is negative, so the value is free)
NaN == -1000000
\* null or undefined where a number may stand (_travelRadius, valueInteger)
NoNumber == -1000001

IsString(v) == v \notin {Undefined, NonString, Null}

\* ------------------------------------------------------------------------
\* Code systems and the static tables (excerpts of the tables of
\* ancora-mappings.ts, in the order of the source)
\* ------------------------------------------------------------------------

LOINC_SYSTEM == "http://loinc.org"
RX_NORM_SYSTEM == "http://www.nlm.nih.gov/research/umls/rxnorm"
SNOMED_CT_SYSTEM == "http://snomed.info/sct"
\* a system no table knows (the tests' 'http://www.example.com/invalid')
EXAMPLE_SYSTEM == "http://www.example.com/invalid"

\* ancoraToCodes: flag -> (system -> codes), as a sequence of
\* <<flag, <<system, codes>>, ...>> entries in Map insertion order.
\* '203852' is listed under lhrh_agonists and under ad_therapy,
\* '1295391' under ad_therapy alone.
ancoraToCodes ==
  << << "flt3_itd",      << << LOINC_SYSTEM,   << "98489-8", "79210-1" >> >> >> >>,
     << "lhrh_agonists", << << RX_NORM_SYSTEM, << "203852" >> >> >> >>,
     << "ad_therapy",    << << RX_NORM_SYSTEM, << "203852", "1295391" >> >> >> >> >>

\* the flags of the table
Flags == { ancoraToCodes[i][1] : i \in DOMAIN ancoraToCodes }

\* diseasesToCodes: disease -> SNOMED codes, in Map insertion order
diseasesToCodes ==
  << << "pancreatic_cancer", << "326072005", "254612002" >> >>,
     << "melanoma",          << "93655004" >> >> >>


\* ------------------------------------------------------------------------
\* The reverse index system -> code -> Set of flags.
\* A Map is a function on the set of its keys; a Set<flag> is the sequence
\* of its members in insertion order (what Array.from yields).
\* ------------------------------------------------------------------------

EmptyMap == [k \in {} |-> <<>>]

MapSet(m, k, v) == [x \in (DOMAIN m) \cup {k} |-> IF x = k THEN v ELSE m[x]]

InSeq(s, x) == \E i \in DOMAIN s : s[i] = x

\* Set.prototype.add
SetAdd(s, x) == IF InSeq(s, x) THEN s ELSE Append(s, x)

\* a faulty variant of InsertFlag: the flag replaces the flags the code
\* already has instead of joining them
InsertFlagOverwrites(index, flag, system, code) ==
  LET systemMappings == IF system \in DOMAIN index THEN index[system] ELSE EmptyMap
  IN  MapSet(index, system, MapSet(systemMappings, code, << flag >>))

\* the body of the innermost loop: one (flag, system, code) of the table
\* goes into the index
InsertFlag(index, flag, system, code) ==
  LET systemMappings == IF system \in DOMAIN index THEN index[system] ELSE EmptyMap
  IN  IF code \in DOMAIN systemMappings
        THEN MapSet(index, system,
                    MapSet(systemMappings, code, SetAdd(systemMappings[code], flag)))
        ELSE MapSet(index, system, MapSet(systemMappings, code, << flag >>))

RECURSIVE InsertCodes(_, _, _, _, _)
InsertCodes(index, flag, system, codes, i) ==
  IF i > Len(codes) THEN index
  ELSE InsertCodes(InsertFlag(index, flag, system, codes[i]), flag, system, codes, i + 1)

RECURSIVE InsertSystems(_, _, _, _)
InsertSystems(index, flag, mappings, j) ==
  IF j > Len(mappings) THEN index
  ELSE InsertSystems(InsertCodes(index, flag, mappings[j][1], mappings[j][2], 1),
                     flag, mappings, j + 1)

\* the index after the outer loop went over the whole table
codesToAncora ==
  LET built[k \in 0..Len(ancoraToCodes)] ==
        IF k = 0 THEN EmptyMap
        ELSE InsertSystems(built[k - 1], ancoraToCodes[k][1], ancoraToCodes[k][2], 1)
  IN  built[Len(ancoraToCodes)]

\* findQueryFlagsForCode: [kind |-> "null"] , [kind |-> "array", flags |-> ...]
\* or [kind |-> "TypeError"]: Array.from(undefined) throws before ?? is reached
FlagsNull == [kind |-> "null", flags |-> <<>>]
FlagsThrow == [kind |-> "TypeError", flags |-> <<>>]
FlagsArray(s) == [kind |-> "array", flags |-> s]

\* the lookup in the index: mapping.get(code), then Array.from(flag) ?? null
FlagsIn(index, system, code) ==
  IF system \in DOMAIN index
    THEN IF code \in DOMAIN index[system]
           THEN FlagsArray(index[system][code])
           ELSE FlagsThrow
    ELSE FlagsNull

findQueryFlagsForCode(system, code) == FlagsIn(codesToAncora, system, code)

\* ------------------------------------------------------------------------
\* The reverse index code -> disease (first registration wins)
\* ------------------------------------------------------------------------

\* a faulty variant of InsertDisease: a later entry replaces the category
InsertDiseaseOverwrites(index, disease, code) == MapSet(index, code, disease)

\* const existing = codesToDiseaseType.get(code); if (existing) { warn }
\* else { codesToDiseaseType.set(code, disease) }
InsertDisease(index, disease, code) ==
  IF code \in DOMAIN index THEN index ELSE MapSet(index, code, disease)

\* a faulty variant of InsertDiseaseCodes: the index is made anew for each
\* entry of the table, so what the entries before it registered is lost
InsertDiseaseCodesAfresh(index, disease, codes, i) ==
  LET fresh[k \in 0..Len(codes)] ==
        IF k = 0 THEN EmptyMap ELSE InsertDisease(fresh[k - 1], disease, codes[k])
  IN  fresh[Len(codes)]

RECURSIVE InsertDiseaseCodes(_, _, _, _)
InsertDiseaseCodes(index, disease, codes, i) ==
  IF i > Len(codes) THEN index
  ELSE InsertDiseaseCodes(InsertDisease(index, disease, codes[i]), disease, codes, i + 1)

codesToDiseaseType ==
  LET built[k \in 0..Len(diseasesToCodes)] ==
        IF k = 0 THEN EmptyMap
        ELSE InsertDiseaseCodes(built[k - 1], diseasesToCodes[k][1], diseasesToCodes[k][2], 1)
  IN  built[Len(diseasesToCodes)]

\* the two build loops, over any table of the same shape
FlagIndex(table) ==
  LET built[k \in 0..Len(table)] ==
        IF k = 0 THEN EmptyMap
        ELSE InsertSystems(built[k - 1], table[k][1], table[k][2], 1)
  IN  built[Len(table)]

DiseaseIndex(table) ==
  LET built[k \in 0..Len(table)] ==
        IF k = 0 THEN EmptyMap
        ELSE InsertDiseaseCodes(built[k - 1], table[k][1], table[k][2], 1)
  IN  built[Len(table)]

\* codesToDiseaseType.get(code) ?? null
DiseaseIn(index, code) == IF code \in DOMAIN index THEN index[code] ELSE Null

findDiseaseTypeForCode(system, code) ==
  IF system # SNOMED_CT_SYSTEM THEN Null ELSE DiseaseIn(codesToDiseaseType, code)

\* the (disease, code) pairs of a disease table in the order the two loops
\* go over them
RECURSIVE DiseasePairs(_, _)
DiseasePairs(table, k) ==
  IF k > Len(table) THEN << >>
  ELSE [i \in DOMAIN table[k][2] |-> [disease |-> table[k][1], code |-> table[k][2][i]]]
       \o DiseasePairs(table, k + 1)

\* the console.error line of the loop
Warning(code, disease, existing) == [code |-> code, disease |-> disease, existing |-> existing]

\* one turn of the inner loop, given what codesToDiseaseType.get(code) gave
WarningsAfter(warnings, existing, pair) ==
  IF existing # Null THEN Append(warnings, Warning(pair.code, pair.disease, existing))
  ELSE warnings

\* the loop before its first turn, over a table
Building(table) ==
  [table |-> table, pairs |-> DiseasePairs(table, 1), done |-> 0, index |-> EmptyMap,
   warnings |-> << >>]

\* the loop after its last turn over diseasesToCodes
Built ==
  [table |-> diseasesToCodes, pairs |-> DiseasePairs(diseasesToCodes, 1),
   done |-> Len(DiseasePairs(diseasesToCodes, 1)),
   index |-> codesToDiseaseType, warnings |-> << >>]

\* ------------------------------------------------------------------------
\* Tumor stage (findTumorStage reads observation.valueString)
\* ------------------------------------------------------------------------

STAGE_LOINC_CODES == { "21908-9", "21902-2", "21914-7" }

STAGE_CODES == [ s \in { "I", "II", "IIA", "III", "IV" } |->
                 CASE s = "I" -> 1 [] s = "II" -> 2 [] s = "IIA" -> 2
                   [] s = "III" -> 3 [] s = "IV" -> 4 ]

\* ------------------------------------------------------------------------
\* Tumor stage by (system, code): tumorStageForCode and its table are in
\* none of the source files; they are written here from their description
\* (a reverse index system -> code -> stage, first registration kept, the
\* codes of the cancerstaging.org system lower-cased before insertion and
\* before lookup) and from the values their tests expect. A code is the
\* sequence of its characters.
\* ------------------------------------------------------------------------

CANCERSTAGING_SYSTEM == "http://cancerstaging.org"

UpperChars == << "A", "B", "C" >>
LowerChars == << "a", "b", "c" >>

LowerChar(c) ==
  IF InSeq(UpperChars, c)
    THEN LowerChars[CHOOSE i \in DOMAIN UpperChars : UpperChars[i] = c]
    ELSE c

UpperChar(c) ==
  IF InSeq(LowerChars, c)
    THEN UpperChars[CHOOSE i \in DOMAIN LowerChars : LowerChars[i] = c]
    ELSE c

toLowerCase(chars) == [i \in DOMAIN chars |-> LowerChar(chars[i])]
toUpperCase(chars) == [i \in DOMAIN chars |-> UpperChar(chars[i])]

\* stage -> (system -> codes)
stagesToCodes ==
  << << 0, << << CANCERSTAGING_SYSTEM, << << "0" >> >> >>,
              << SNOMED_CT_SYSTEM, << << "2", "6", "1", "6", "1", "3", "0", "0", "9" >> >> >> >> >>,
     << 3, << << CANCERSTAGING_SYSTEM, << << "3" >>, << "3", "A" >>, << "3", "b" >> >> >> >> >>,
     << 4, << << CANCERSTAGING_SYSTEM, << << "4" >>, << "4", "A" >> >> >>,
              << EXAMPLE_SYSTEM, << << "4", "A" >> >> >> >> >> >>

\* a faulty variant of NormalizeStageCode: every code is taken verbatim
KeepStageCode(system, code) == code

\* the per-system normalisation of a code
NormalizeStageCode(system, code) ==
  IF system = CANCERSTAGING_SYSTEM THEN toLowerCase(code) ELSE code

InsertStage(index, stage, system, code) ==
  LET systemMappings == IF system \in DOMAIN index THEN index[system] ELSE EmptyMap
      key == NormalizeStageCode(system, code)
  IN  IF key \in DOMAIN systemMappings THEN index
      ELSE MapSet(index, system, MapSet(systemMappings, key, stage))

RECURSIVE InsertStageCodes(_, _, _, _, _)
InsertStageCodes(index, stage, system, codes, i) ==
  IF i > Len(codes) THEN index
  ELSE InsertStageCodes(InsertStage(index, stage, system, codes[i]), stage, system, codes, i + 1)

RECURSIVE InsertStageSystems(_, _, _, _)
InsertStageSystems(index, stage, mappings, j) ==
  IF j > Len(mappings) THEN index
  ELSE InsertStageSystems(InsertStageCodes(index, stage, mappings[j][1], mappings[j][2], 1),
                          stage, mappings, j + 1)

codesToStage ==
  LET built[k \in 0..Len(stagesToCodes)] ==
        IF k = 0 THEN EmptyMap
        ELSE InsertStageSystems(built[k - 1], stagesToCodes[k][1], stagesToCodes[k][2], 1)
  IN  built[Len(stagesToCodes)]

\* what a stage lookup yields: undefined or a number
StageUndefined == [kind |-> "undefined", stage |-> 0]
StageNumber(stage) == [kind |-> "number", stage |-> stage]

StageIn(index, system, code) ==
  IF system \notin DOMAIN index THEN StageUndefined
  ELSE IF code \notin DOMAIN index[system] THEN StageUndefined
  ELSE StageNumber(index[system][code])

\* system is a string or Undefined; code is a string property (missing, or
\* the characters of the string)
tumorStageForCode(system, code) ==
  IF system = Undefined \/ code.kind # "string" THEN StageUndefined
  ELSE StageIn(codesToStage, system, NormalizeStageCode(system, code.chars))

\* ------------------------------------------------------------------------
\* Strings that the code parses are sequences of characters
\* ------------------------------------------------------------------------

DigitChars == << "0", "1", "2", "3", "4", "5", "6", "7", "8", "9" >>

DigitSet == { DigitChars[i] : i \in DOMAIN DigitChars }

IsDigit(c) == c \in DigitSet

DigitValue(c) == (CHOOSE i \in DOMAIN DigitChars : DigitChars[i] = c) - 1

\* the end (exclusive) of the longest run of digits of s that starts at i
RECURSIVE DigitsEnd(_, _)
DigitsEnd(s, i) ==
  IF i <= Len(s) /\ IsDigit(s[i]) THEN DigitsEnd(s, i + 1) ELSE i

\* Number() of the digits s[from .. to-1]
RECURSIVE DigitsToNumber(_, _, _, _)
DigitsToNumber(s, from, to, acc) ==
  IF from >= to THEN acc
  ELSE DigitsToNumber(s, from + 1, to, acc * 10 + DigitValue(s[from]))

\* /^(\d+)(?:-(\d+)(?:-(\d+))?)?/.exec(s): the three groups as numbers, a
\* group that did not take part as Undefined; matched is FALSE for null
NoMatch == [matched |-> FALSE, g1 |-> 0, has2 |-> FALSE, g2 |-> 0, has3 |-> FALSE, g3 |-> 0]

BirthDateParts(s) ==
  LET e1 == DigitsEnd(s, 1)
      has2 == e1 <= Len(s) /\ s[e1] = "-" /\ DigitsEnd(s, e1 + 1) > e1 + 1
      e2 == IF has2 THEN DigitsEnd(s, e1 + 1) ELSE e1
      has3 == has2 /\ e2 <= Len(s) /\ s[e2] = "-" /\ DigitsEnd(s, e2 + 1) > e2 + 1
      e3 == IF has3 THEN DigitsEnd(s, e2 + 1) ELSE e2
  IN  IF e1 = 1 THEN NoMatch
      ELSE [matched |-> TRUE,
            g1 |-> DigitsToNumber(s, 1, e1, 0),
            has2 |-> has2,
            g2 |-> IF has2 THEN DigitsToNumber(s, e1 + 1, e2, 0) ELSE 0,
            has3 |-> has3,
            g3 |-> IF has3 THEN DigitsToNumber(s, e2 + 1, e3, 0) ELSE 0]

\* ------------------------------------------------------------------------
\* Date: a time value is a day number (days since 1970-01-01 UTC) and the
\* milliseconds within the day; the getUTC* methods read the day alone.
\* ------------------------------------------------------------------------

\* the day number of the civil date y-m-d (m in 1..12) in the proleptic
\* Gregorian calendar
DaysFromCivil(y, m, d) ==
  LET yy  == IF m <= 2 THEN y - 1 ELSE y
      era == yy \div 400
      yoe == yy - era * 400
      mp  == IF m > 2 THEN m - 3 ELSE m + 9
      doy == (153 * mp + 2) \div 5 + d - 1
      doe == yoe * 365 + yoe \div 4 - yoe \div 100 + doy
  IN  era * 146097 + doe - 719468

\* the civil date of a day number: [year, month (0..11, as getUTCMonth), date]
CivilFromDays(z0) ==
  LET z   == z0 + 719468
      era == z \div 146097
      doe == z - era * 146097
      yoe == (doe - doe \div 1460 + doe \div 36524 - doe \div 146096) \div 365
      doy == doe - (365 * yoe + yoe \div 4 - yoe \div 100)
      mp  == (5 * doy + 2) \div 153
      d   == doy - (153 * mp + 2) \div 5 + 1
      m   == IF mp < 10 THEN mp + 3 ELSE mp - 9
  IN  [year |-> yoe + era * 400 + (IF m <= 2 THEN 1 ELSE 0), month |-> m - 1, date |-> d]

\* a Date is valid up to 100,000,000 days either side of the epoch; past
\* MaxDateYear every date is out of that range (and the day number is not
\* computed)
MaxTimeDays == 100000000
MaxDateYear == 300000

\* Date.UTC(year, month, date) as a day number, or NaN: years 0..99 mean
\* 1900..1999, month and date overflow into the next year and month
DateUTC(year, month, date) ==
  LET yr == IF year >= 0 /\ year <= 99 THEN 1900 + year ELSE year
      ym == yr + month \div 12
      mn == month % 12
  IN  IF ym > MaxDateYear THEN NaN
      ELSE LET day == DaysFromCivil(ym, mn + 1, 1) + date - 1
           IN  IF day > MaxTimeDays \/ day < -MaxTimeDays THEN NaN ELSE day

\* new Date(value): the UTC calendar fields the getUTC* methods read, all
\* NaN for an Invalid Date
InvalidDate == [year |-> NaN, month |-> NaN, date |-> NaN]
NewDate(day) == IF day = NaN THEN InvalidDate ELSE CivilFromDays(day)
getUTCFullYear(d) == d.year
getUTCMonth(d) == d.month
getUTCDate(d) == d.date

\* a - b, a < b, Math.min and Math.max on numbers that may be NaN
NumSub(a, b) == IF a = NaN \/ b = NaN THEN NaN ELSE a - b
NumLess(a, b) == a # NaN /\ b # NaN /\ a < b
NumEq(a, b) == a # NaN /\ b # NaN /\ a = b
MathMin(a, b) == IF a = NaN \/ b = NaN THEN NaN ELSE IF a < b THEN a ELSE b
MathMax(a, b) == IF a = NaN \/ b = NaN THEN NaN ELSE IF a > b THEN a ELSE b

\* ------------------------------------------------------------------------
\* FHIR values as the code sees them
\* ------------------------------------------------------------------------

\* a string property: missing, or the characters of the string
NoString == [kind |-> "undefined", chars |-> << >>]
NullString == [kind |-> "null", chars |-> << >>]
Str(chars) == [kind |-> "string", chars |-> chars]

\* a coding: an object with system and code (either may be Undefined or
\* NonString), or the entry null
Coding(system, code) == [shape |-> "object", system |-> system, code |-> code]
NullCoding == [shape |-> "null", system |-> Undefined, code |-> Undefined]
\* an entry that is neither an object nor null (true, 12): reading a
\* property of it gives undefined
PrimitiveCoding == [shape |-> "other", system |-> Undefined, code |-> Undefined]

\* a CodeableConcept property: cc says whether the property is there
\* ("undefined", "object"), coding what its coding list is: "undefined",
\* "array", "other" for a truthy value that is no array (true, 12), "false"
\* for a falsy one; neither of the last two can be iterated
CodeableConcept(items) == [cc |-> "object", coding |-> "array", items |-> items]
NoCodeableConcept == [cc |-> "undefined", coding |-> "undefined", items |-> << >>]
NoCodingList == [cc |-> "object", coding |-> "undefined", items |-> << >>]
BadCodingList == [cc |-> "object", coding |-> "other", items |-> << >>]
FalseCodingList == [cc |-> "object", coding |-> "false", items |-> << >>]

\* Array.isArray(x.code?.coding) and x.code && Array.isArray(x.code.coding)
IsCodingArray(concept) == concept.cc = "object" /\ concept.coding = "array"

HISTOLOGY_URL == "http://hl7.org/fhir/us/mcode/StructureDefinition/mcode-histology-morphology-behavior"

\* ------------------------------------------------------------------------
\* AncoraAPIQuery: the methods, as functions of the fields they touch.
\* A method yields the fields after it and ex, "none" or the exception that
\* ended it (the fields then hold what had been written before the throw).
\* ------------------------------------------------------------------------

NoException == "none"
TypeError == "TypeError"

\* a faulty variant of SetCriterion: a criterion that is set already is kept
SetCriterionOnce(criterions, key, value) ==
  [k \in (DOMAIN criterions) \cup {key} |->
     IF k \in DOMAIN criterions THEN criterions[k] ELSE value]

\* this._criterions[flag] = value
SetCriterion(criterions, key, value) ==
  [k \in (DOMAIN criterions) \cup {key} |-> IF k = key THEN value ELSE criterions[k]]

RECURSIVE SetFlags(_, _, _, _)
SetFlags(criterions, flags, i, value) ==
  IF i > Len(flags) THEN criterions
  ELSE SetFlags(SetCriterion(criterions, flags[i], value), flags, i + 1, value)

\* if (flags) { for (const flag of flags) { ... } }, after a lookup that may
\* have thrown
ApplyFlags(criterions, flags, value) ==
  CASE flags.kind = "TypeError" -> [criterions |-> criterions, ex |-> TypeError]
    [] flags.kind = "null" -> [criterions |-> criterions, ex |-> NoException]
    [] OTHER -> [criterions |-> SetFlags(criterions, flags.flags, 1, value),
                 ex |-> NoException]

_addCode(criterions, code, value) ==
  IF code.shape # "object" \/ ~IsString(code.system) \/ ~IsString(code.code)
    THEN [criterions |-> criterions, ex |-> NoException]
    ELSE ApplyFlags(criterions, findQueryFlagsForCode(code.system, code.code), value)

\* for (const coding of items) { this._addCode(coding, value); }: AddCodes
\* is the loop from its i-th turn on, AddCodesAfter the rest of it after a
\* turn that left r
RECURSIVE AddCodes(_, _, _, _)
RECURSIVE AddCodesAfter(_, _, _, _)
AddCodes(criterions, items, i, value) ==
  IF i > Len(items) THEN [criterions |-> criterions, ex |-> NoException]
  ELSE AddCodesAfter(_addCode(criterions, items[i], value), items, i + 1, value)

AddCodesAfter(r, items, i, value) ==
  IF r.ex # NoException THEN r ELSE AddCodes(r.criterions, items, i, value)

\* a faulty variant of SetDiseaseType: a category once set is kept
KeepFirstDiseaseType(typeOfDisease, diseaseType) ==
  IF typeOfDisease = Null THEN diseaseType ELSE typeOfDisease

\* if (diseaseType !== null) this.typeOfDisease = diseaseType
SetDiseaseType(typeOfDisease, diseaseType) ==
  IF diseaseType # Null THEN diseaseType ELSE typeOfDisease

\* the loop of addCondition over condition.code.coding; examined counts the
\* codings whose disease type was looked up
RECURSIVE ConditionCodings(_, _, _, _)
ConditionCodings(criterions, typeOfDisease, items, i) ==
  IF i > Len(items)
    THEN [criterions |-> criterions, typeOfDisease |-> typeOfDisease,
          ex |-> NoException, examined |-> Len(items)]
    ELSE LET r == _addCode(criterions, items[i], TRUE)
         IN  IF r.ex # NoException \/ items[i].shape = "null"
               THEN [criterions |-> r.criterions, typeOfDisease |-> typeOfDisease,
                     ex |-> TypeError, examined |-> i - 1]
               ELSE ConditionCodings(
                      r.criterions,
                      SetDiseaseType(typeOfDisease,
                                     findDiseaseTypeForCode(items[i].system, items[i].code)),
                      items, i + 1)

\* the loop of addCondition over condition.extension
RECURSIVE ConditionExtensions(_, _, _)
ConditionExtensions(criterions, extensions, i) ==
  IF i > Len(extensions) THEN [criterions |-> criterions, ex |-> NoException]
  ELSE LET e == extensions[i]
           r == IF e.url = HISTOLOGY_URL /\ IsCodingArray(e.valueCodeableConcept)
                  THEN AddCodes(criterions, e.valueCodeableConcept.items, 1, TRUE)
                  ELSE [criterions |-> criterions, ex |-> NoException]
       IN  IF r.ex # NoException THEN r
           ELSE ConditionExtensions(r.criterions, extensions, i + 1)

addCondition(criterions, typeOfDisease, condition) ==
  LET codes == IF IsCodingArray(condition.code)
                 THEN ConditionCodings(criterions, typeOfDisease, condition.code.items, 1)
                 ELSE [criterions |-> criterions, typeOfDisease |-> typeOfDisease,
                       ex |-> NoException, examined |-> 0]
      exts  == IF codes.ex = NoException /\ condition.extension.isArray
                 THEN ConditionExtensions(codes.criterions, condition.extension.items, 1)
                 ELSE [criterions |-> codes.criterions, ex |-> codes.ex]
  IN  [criterions |-> exts.criterions, typeOfDisease |-> codes.typeOfDisease,
       ex |-> exts.ex, examined |-> codes.examined]

\* --- addObservation ------------------------------------------------------

POSITIVE_CODE == "10828004"
NEGATIVE_CODE == "260385009"
ECOG_CODE == "89247-1"
KARNOFSKY_CODE == "89243-0"

\* the loop over observation.valueCodeableConcept.coding: a SNOMED Positive
\* or Negative value coding applies true or false to the primary codings
RECURSIVE ObservationValueCodings(_, _, _, _)
ObservationValueCodings(criterions, observation, values, i) ==
  IF i > Len(values) THEN [criterions |-> criterions, ex |-> NoException]
  ELSE LET coding == values[i]
           known == coding.system = SNOMED_CT_SYSTEM
                    /\ coding.code \in {POSITIVE_CODE, NEGATIVE_CODE}
           r == IF known /\ IsCodingArray(observation.code)
                  THEN AddCodes(criterions, observation.code.items, 1,
                                coding.code = POSITIVE_CODE)
                  ELSE [criterions |-> criterions, ex |-> NoException]
       IN  IF coding.shape = "null" THEN [criterions |-> criterions, ex |-> TypeError]
           ELSE IF r.ex # NoException THEN r
           ELSE ObservationValueCodings(r.criterions, observation, values, i + 1)

\* the loop over observation.code.coding for an integer value
RECURSIVE ObservationScores(_, _, _, _)
ObservationScores(criterions, items, i, valueInteger) ==
  IF i > Len(items) THEN [criterions |-> criterions, ex |-> NoException]
  ELSE LET coding == items[i]
           c == IF coding.system = LOINC_SYSTEM /\ coding.code = ECOG_CODE
                  THEN SetCriterion(criterions, "ecog", valueInteger)
                ELSE IF coding.system = LOINC_SYSTEM /\ coding.code = KARNOFSKY_CODE
                  THEN SetCriterion(criterions, "karnofsky", valueInteger)
                ELSE criterions
       IN  IF coding.shape = "null" THEN [criterions |-> criterions, ex |-> TypeError]
           ELSE ObservationScores(c, items, i + 1, valueInteger)

\* coding.findIndex(value => STAGE_LOINC_CODES.has(value.code)): the index
\* (from 1) of the first staging code, 0 for none, -1 for a TypeError on a
\* null entry met before one is found
RECURSIVE FindStageIndex(_, _)
FindStageIndex(items, i) ==
  IF i > Len(items) THEN 0
  ELSE IF items[i].shape = "null" THEN -1
  ELSE IF items[i].code \in STAGE_LOINC_CODES THEN i
  ELSE FindStageIndex(items, i + 1)

StageNull == [kind |-> "null", stage |-> 0]
StageThrow == [kind |-> "TypeError", stage |-> 0]

findTumorStage(observation) ==
  LET code == observation.code
  IN  IF code.cc = "undefined" \/ code.coding \in {"undefined", "false"} THEN StageNull
      ELSE IF code.coding # "array" THEN StageThrow
      ELSE LET index == FindStageIndex(code.items, 1)
           IN  IF index < 0 THEN StageThrow
               ELSE IF index = 0 THEN StageNull
               ELSE IF observation.valueString \in DOMAIN STAGE_CODES
                 THEN [kind |-> "number", stage |-> STAGE_CODES[observation.valueString]]
               ELSE StageNull

addObservation(criterions, observation) ==
  LET value == observation.valueCodeableConcept
      r1 == IF value.cc = "undefined" THEN [criterions |-> criterions, ex |-> NoException]
            ELSE IF value.coding # "array" THEN [criterions |-> criterions, ex |-> TypeError]
            ELSE ObservationValueCodings(criterions, observation, value.items, 1)
      r2 == IF r1.ex # NoException THEN r1
            ELSE IF observation.valueInteger # NoNumber /\ IsCodingArray(observation.code)
              THEN ObservationScores(r1.criterions, observation.code.items, 1,
                                     observation.valueInteger)
            ELSE r1
      tumorStage == findTumorStage(observation)
  IN  IF r2.ex # NoException THEN r2
      ELSE IF tumorStage.kind = "TypeError" THEN [criterions |-> r2.criterions, ex |-> TypeError]
      ELSE IF tumorStage.kind = "number"
        THEN [criterions |-> SetCriterion(r2.criterions, "tumor_stage", tumorStage.stage),
              ex |-> NoException]
      ELSE r2

\* --- addMedicationStatement, addProcedure ---------------------------------

addMedicationStatement(criterions, medicationStatement) ==
  LET concept == medicationStatement.medicationCodeableConcept
  IN  IF concept.cc = "undefined" \/ concept.coding # "array"
        THEN [criterions |-> criterions, ex |-> TypeError]
        ELSE AddCodes(criterions, concept.items, 1, TRUE)

ProcedureCounts(status) == status = "completed"

addProcedure(criterions, procedure) ==
  IF ProcedureCounts(procedure.status) /\ IsCodingArray(procedure.code)
    THEN AddCodes(criterions, procedure.code.items, 1, TRUE)
    ELSE [criterions |-> criterions, ex |-> NoException]

\* --- addPatient -------------------------------------------------------------

\* Math.max(1, Math.min(100, age))
ClampAge(age) == MathMax(1, MathMin(100, age))

\* a faulty variant of ComputeAge: the difference of the years, whether or
\* not this year's birthday has come
YearDifference(parts, now) ==
  NumSub(getUTCFullYear(NewDate(now)),
         getUTCFullYear(NewDate(DateUTC(parts.g1, IF parts.has2 THEN parts.g2 - 1 ELSE 0,
                                        IF parts.has3 THEN parts.g3 ELSE 1))))

\* the age the code computes from the matched parts of the birth date and
\* today's day number, before it is clamped
ComputeAge(parts, now) ==
  LET birthDate == NewDate(DateUTC(parts.g1,
                                   IF parts.has2 THEN parts.g2 - 1 ELSE 0,
                                   IF parts.has3 THEN parts.g3 ELSE 1))
      today == NewDate(now)
      age == NumSub(getUTCFullYear(today), getUTCFullYear(birthDate))
      before == NumLess(getUTCMonth(today), getUTCMonth(birthDate))
                \/ (NumEq(getUTCMonth(today), getUTCMonth(birthDate))
                    /\ NumLess(getUTCDate(today), getUTCDate(birthDate)))
  IN  IF before THEN NumSub(age, 1) ELSE age

\* a faulty variant of BirthDateMatches: every birth date is taken as matched
BirthDateAlwaysMatches(birthDate, parts) == TRUE

\* if (patient.birthDate) { ... if (birthDateParts) {
BirthDateMatches(birthDate, parts) ==
  birthDate.kind = "string" /\ Len(birthDate.chars) > 0 /\ parts.matched

\* the criteria after addPatient, and its local age before the clamp
addPatient(criterions, patient, today) ==
  LET parts == BirthDateParts(patient.birthDate.chars)
      matches == BirthDateMatches(patient.birthDate, parts)
      age == IF matches THEN ComputeAge(parts, today.day) ELSE NoNumber
      c1 == IF matches THEN SetCriterion(criterions, "age", ClampAge(age)) ELSE criterions
  IN  [criterions |-> IF patient.gender \in {"male", "female"}
                        THEN SetCriterion(c1, "natal_sex", patient.gender)
                        ELSE c1,
       age |-> age]

\* --- toQuery ----------------------------------------------------------------

DEFAULT_RADIUS == 100

NO_DISEASE_MESSAGE ==
  "No supported type of disease found within patient data, cannot generate a valid query."

NoQuery == [result |-> "none"]

\* a faulty variant of DiseaseMissing: the typeOfDisease is never found missing
DiseaseNeverMissing(typeOfDisease) == FALSE

\* this.typeOfDisease == null
DiseaseMissing(typeOfDisease) == typeOfDisease = Null

\* the query's own fields; its criterions field is the accumulator's
\* _criterions object itself (see query_criterions)
\* a faulty variant of QueryRadius: the default whatever was supplied
AlwaysDefaultRadius(travelRadius) == DEFAULT_RADIUS

\* query.radius
QueryRadius(travelRadius) == IF travelRadius = NoNumber THEN DEFAULT_RADIUS ELSE travelRadius

toQuery(typeOfDisease, zipCode, travelRadius) ==
  IF DiseaseMissing(typeOfDisease)
    THEN [result |-> "Error", message |-> NO_DISEASE_MESSAGE]
    ELSE [result |-> "returned",
          country |-> "US",
          type_of_disease |-> typeOfDisease,
          has_zip_code |-> zipCode.kind # "null",
          zip_code |-> zipCode,
          radius |-> QueryRadius(travelRadius),
          radius_unit |-> "MI"]

\* parseFloat of a string property: the number its leading digits spell, NaN
\* when there is none (undefined reads as "undefined"); the strings drawn
\* hold no sign, blank, fraction or exponent
parseFloat(string) ==
  LET end == DigitsEnd(string.chars, 1)
  IN  IF string.kind # "string" \/ end = 1 THEN NaN
      ELSE DigitsToNumber(string.chars, 1, end, 0)

\* ------------------------------------------------------------------------
\* The resources the bundles and the direct calls are drawn from
\* ------------------------------------------------------------------------

FLT3 == Coding(LOINC_SYSTEM, "98489-8")
LHRH == Coding(RX_NORM_SYSTEM, "203852")
ADT == Coding(RX_NORM_SYSTEM, "1295391")
UNREG_LOINC == Coding(LOINC_SYSTEM, "unknown")
UNREG_RX == Coding(RX_NORM_SYSTEM, "unknown")
FAKE == Coding(EXAMPLE_SYSTEM, "unknown")
PANC == Coding(SNOMED_CT_SYSTEM, "326072005")
MELA == Coding(SNOMED_CT_SYSTEM, "93655004")
POSITIVE == Coding(SNOMED_CT_SYSTEM, POSITIVE_CODE)
NEGATIVE == Coding(SNOMED_CT_SYSTEM, NEGATIVE_CODE)
ECOG == Coding(LOINC_SYSTEM, ECOG_CODE)
KARNOFSKY == Coding(LOINC_SYSTEM, KARNOFSKY_CODE)
STAGING == Coding(LOINC_SYSTEM, "21908-9")
\* the value coding of the stage 0 observation of the findTumorStage tests
STAGE_0 == Coding(SNOMED_CT_SYSTEM, "261613009")

NoExtension == [isArray |-> FALSE, items |-> << >>]
HistologyExtension(concept) ==
  [isArray |-> TRUE, items |-> << [url |-> HISTOLOGY_URL, valueCodeableConcept |-> concept] >>]
Histology(items) == HistologyExtension(CodeableConcept(items))

Condition(code, extension) ==
  [resourceType |-> "Condition", code |-> code, extension |-> extension]

Conditions ==
  { Condition(CodeableConcept(items), NoExtension) :
      items \in { << PANC >>, << MELA >>, << PANC, MELA >>, << MELA, FAKE >>, << FAKE >>,
                  << UNREG_LOINC, MELA >>, << LHRH >>, << NullCoding >> } }
  \cup { Condition(NoCodeableConcept, Histology(<< ADT >>)),
         Condition(BadCodingList, NoExtension),
         Condition(NoCodingList, HistologyExtension(NoCodeableConcept)),
         Condition(CodeableConcept(<< Coding(Undefined, "326072005"),
                                      Coding(SNOMED_CT_SYSTEM, NonString), PrimitiveCoding >>),
                   HistologyExtension(BadCodingList)) }

Observation(code, value, valueInteger, valueString) ==
  [resourceType |-> "Observation", code |-> code, valueCodeableConcept |-> value,
   valueInteger |-> valueInteger, valueString |-> valueString]

Biomarker(codes, values) ==
  Observation(CodeableConcept(codes), CodeableConcept(values), NoNumber, Undefined)

Observations ==
  { Biomarker(<< FLT3 >>, << POSITIVE >>),
    Biomarker(<< FLT3 >>, << NEGATIVE >>),
    Biomarker(<< FLT3, LHRH >>, << POSITIVE >>),
    Biomarker(<< LHRH >>, << NEGATIVE >>),
    Biomarker(<< UNREG_LOINC, FLT3 >>, << POSITIVE >>),
    Biomarker(<< FLT3 >>, << POSITIVE, NEGATIVE >>),
    Biomarker(<< FLT3 >>, << POSITIVE, LHRH >>),
    Biomarker(<< FLT3 >>, << FAKE >>),
    Observation(CodeableConcept(<< FLT3 >>), NoCodingList, NoNumber, Undefined),
    Observation(CodeableConcept(<< ECOG >>), NoCodeableConcept, 1, Undefined),
    Observation(CodeableConcept(<< KARNOFSKY >>), NoCodeableConcept, 90, Undefined),
    Observation(CodeableConcept(<< UNREG_LOINC >>), NoCodeableConcept, 3, Undefined),
    Observation(CodeableConcept(<< ECOG >>), NoCodingList, 2, Undefined),
    Observation(CodeableConcept(<< STAGING >>), NoCodeableConcept, NoNumber, "II"),
    Observation(CodeableConcept(<< STAGING >>), NoCodeableConcept, NoNumber, "unknown"),
    Observation(CodeableConcept(<< STAGING >>), CodeableConcept(<< STAGE_0 >>), NoNumber, Undefined),
    Observation(CodeableConcept(<< STAGING >>), NoCodingList, NoNumber, Undefined),
    Observation(CodeableConcept(<< Coding(EXAMPLE_SYSTEM, "21908-9") >>), NoCodeableConcept,
                NoNumber, "II"),
    Observation(BadCodingList, NoCodeableConcept, NoNumber, Undefined),
    Observation(FalseCodingList, NoCodeableConcept, NoNumber, Undefined) }

MedicationStatement(concept) ==
  [resourceType |-> "MedicationStatement", medicationCodeableConcept |-> concept]

MedicationStatements ==
  { MedicationStatement(CodeableConcept(<< LHRH >>)),
    MedicationStatement(CodeableConcept(<< ADT >>)),
    MedicationStatement(CodeableConcept(<< UNREG_RX, ADT >>)),
    MedicationStatement(NoCodeableConcept) }

Procedure(status, code) == [resourceType |-> "Procedure", status |-> status, code |-> code]

Procedures ==
  { Procedure("completed", CodeableConcept(<< LHRH >>)),
    Procedure("completed", CodeableConcept(<< FAKE, ADT >>)),
    Procedure("completed", CodeableConcept(<< UNREG_RX, LHRH >>)),
    Procedure("completed", NoCodeableConcept),
    Procedure("entered-in-error", CodeableConcept(<< LHRH >>)),
    Procedure(Undefined, CodeableConcept(<< ADT >>)) }

Patient(birthDate, gender) ==
  [resourceType |-> "Patient", birthDate |-> birthDate, gender |-> gender]

BirthDates ==
  { << "2", "0", "0", "2" >>,
    << "2", "0", "0", "2", "-", "0", "1" >>,
    << "2", "0", "0", "2", "-", "0", "1", "-", "0", "1" >>,
    << "2", "0", "0", "2", "-", "0", "1", "-", "0", "2" >>,
    << "2", "0", "0", "1", "-", "1", "2", "-", "3", "1" >>,
    << "2", "0", "2", "2", "-", "1", "2", "-", "0", "1" >>,
    << "1", "9", "1", "8", "-", "0", "1", "-", "0", "1" >>,
    << "0", "0", "5", "0", "-", "0", "6", "-", "1", "5" >>,
    << "3", "0", "0", "0", "0", "0" >>,
    << "i", "n", "v", "a", "l", "i", "d" >>,
    << >> }

Patients ==
  { Patient(Str(chars), Undefined) : chars \in BirthDates }
  \cup { Patient(NoString, Undefined), Patient(NoString, "male"),
         Patient(Str(<< "2", "0", "0", "2" >>), "female"), Patient(NoString, "other") }

\* what new Date() reads: the day (days since 1970-01-01, UTC) and the
\* millisecond within it
Instant(year, month, date, ms) == [day |-> DaysFromCivil(year, month, date), ms |-> ms]

LastMillisecond == 86399999

Todays == { Instant(2022, 12, 31, LastMillisecond), Instant(2023, 1, 1, 0) }

NoToday == [day |-> NaN, ms |-> 0]

Parameter(name, valueString) == [name |-> name, valueString |-> valueString]

ParametersResource(isArray, parameter) ==
  [resourceType |-> "Parameters", isArray |-> isArray, parameter |-> parameter]

ParametersResources ==
  { ParametersResource(TRUE, << Parameter("zipCode", Str(<< "0", "1", "7", "3", "0" >>)),
                                Parameter("travelRadius", Str(<< "2", "5" >>)) >>),
    ParametersResource(TRUE, << Parameter("travelRadius", Str(<< "f", "a", "r" >>)) >>),
    ParametersResource(TRUE, << Parameter("zipCode", NoString) >>),
    ParametersResource(TRUE, << Parameter("phase", Str(<< "1" >>)),
                                Parameter("recruitmentStatus", Str(<< "o", "p", "e", "n" >>)) >>),
    ParametersResource(FALSE, << >>) }

\* entries the constructor passes over: one with no resource, and resources
\* of a type it has no branch for
OtherEntries ==
  { [hasResource |-> FALSE, resourceType |-> Undefined],
    [hasResource |-> TRUE, resourceType |-> "Encounter"] }

DefaultTypesOfDisease == { Undefined, "breast_cancer" }

\* ------------------------------------------------------------------------
\* The state machine
\* ------------------------------------------------------------------------

VARIABLES
  pc,                    \* "constructor" while the constructor scans the bundle,
                         \* "constructed" once it returned, "thrown" if it threw
  defaultTypeOfDisease,  \* the constructor's second argument
  _criterions,           \* the fields of the AncoraAPIQuery
  typeOfDisease,
  _zipCode,
  _travelRadius,
  _phase,
  _recruitmentStatus,
  ops,                   \* entries scanned and methods called so far
  last,                  \* the last step: its method, argument, clock reading and
                         \* the local age of addPatient before it is clamped
  exception,             \* what the last step threw, "none" if it returned
  query,                 \* the own fields of the object toQuery returned last
  lastResolved,          \* history: the category of the last coding examined by
                         \* addCondition that is a known disease code
  lastListed,            \* history: the category of the last coding of the Conditions
                         \* passed so far that the disease table lists
  lookup,                \* the last direct call of a lookup function and its result
  building,              \* the loop that builds codesToDiseaseType when the module
                         \* loads: the (disease, code) pairs of the table, how many
                         \* it has been over, the index so far and the warnings logged
  request,               \* a sendQuery call: where it is and how its promise settled
  supplied,              \* history: the valueString of the last zipCode and of the
                         \* last travelRadius parameter the constructor went over
  passes,                \* two getMatchingClinicalTrials calls in progress: for each
                         \* its bundle, how far its constructor got, the fields of
                         \* its AncoraAPIQuery and the query its toQuery returned
  heap                   \* the Sets of codesToAncora as they are now, and the arrays
                         \* a caller of findQueryFlagsForCode holds

vars ==
  << pc, defaultTypeOfDisease, _criterions, typeOfDisease, _zipCode, _travelRadius,
     _phase, _recruitmentStatus, ops, last, exception, query, lastResolved, lastListed,
     lookup, building, request, supplied, passes, heap >>

\* what the methods of an AncoraAPIQuery and the lookups never touch
elsewhere == << building, request, supplied, passes, heap >>

fields == << _criterions, typeOfDisease, _zipCode, _travelRadius, _phase, _recruitmentStatus >>

NoResource == [resourceType |-> Undefined]
NoLookup == [fn |-> "none"]
NoRequest == [at |-> "none"]
NotSupplied == [kind |-> "absent", chars |-> << >>]

Step(op, resource, today, age) == [op |-> op, resource |-> resource, today |-> today, age |-> age]

\* ------------------------------------------------------------------------
\* Two passes over two bundles, each with an AncoraAPIQuery of its own, and
\* the one reverse index of the module that both read
\* ------------------------------------------------------------------------

Passes == { "first", "second" }

\* the fields of a new AncoraAPIQuery(bundle) before the first entry
NewAccumulator == [_criterions |-> EmptyMap, typeOfDisease |-> Null, exception |-> NoException]

NotAsked == [asked |-> FALSE, query |-> NoQuery, criterions |-> EmptyMap]

NewPass(bundle) ==
  [bundle |-> bundle, at |-> 0, _criterions |-> EmptyMap, typeOfDisease |-> Null,
   exception |-> NoException, answer |-> NotAsked]

\* codesToAncora once the module is loaded; no array handed out yet
LoadedHeap == [sets |-> codesToAncora, held |-> << >>]

\* a faulty variant of Accumulator: one _criterions and typeOfDisease for
\* all the instances
SharedAccumulator(p) == "first"

\* the instance whose fields the methods of pass p read and write: its own
Accumulator(p) == p

\* one turn of the constructor's loop over bundle.entry
ScanEntry(acc, resource) ==
  IF resource.resourceType = "Condition"
    THEN LET r == addCondition(acc._criterions, acc.typeOfDisease, resource)
         IN  [_criterions |-> r.criterions, typeOfDisease |-> r.typeOfDisease,
              exception |-> r.ex]
  ELSE LET r == IF resource.resourceType = "Observation"
                  THEN addObservation(acc._criterions, resource)
                ELSE IF resource.resourceType = "MedicationStatement"
                  THEN addMedicationStatement(acc._criterions, resource)
                ELSE addProcedure(acc._criterions, resource)
       IN  [_criterions |-> r.criterions, typeOfDisease |-> acc.typeOfDisease,
            exception |-> r.ex]

\* the accumulator after the first n entries of a bundle scanned on its own
Alone(bundle, n) ==
  LET acc[k \in 0..n] ==
        IF k = 0 THEN NewAccumulator
        ELSE IF acc[k - 1].exception # NoException THEN acc[k - 1]
        ELSE ScanEntry(acc[k - 1], bundle[k])
  IN  acc[n]

\* what toQuery returns for an accumulator, with the content of the
\* criterions object it refers to
Answer(acc) ==
  [asked |-> TRUE, query |-> toQuery(acc.typeOfDisease, NullString, NoNumber),
   criterions |-> acc._criterions]

\* a faulty variant of ArrayFrom: the array handed out is the storage of the
\* Set itself
ReturnsTheSet(system, code, set) ==
  [copy |-> FALSE, system |-> system, code |-> code, items |-> set]

\* Array.from(flag): a new array with the members of the Set
ArrayFrom(system, code, set) ==
  [copy |-> TRUE, system |-> system, code |-> code, items |-> set]

\* returned.push(flag) by the caller that holds the array
Push(h, returned, flag) ==
  IF returned.copy
    THEN [h EXCEPT !.held = Append(@, Append(returned.items, flag))]
    ELSE [sets |-> MapSet(h.sets, returned.system,
                          MapSet(h.sets[returned.system], returned.code,
                                 Append(returned.items, flag))),
          held |-> Append(h.held, Append(returned.items, flag))]

\* a faulty variant of InitialTypeOfDisease: the default is dropped
NoInitialTypeOfDisease(default) == Null

\* if (defaultTypeOfDisease) this.typeOfDisease = defaultTypeOfDisease, over
\* the field's initial null
InitialTypeOfDisease(default) == IF default = Undefined THEN Null ELSE default

Init ==
  /\ pc = "constructor"
  /\ defaultTypeOfDisease \in DefaultTypesOfDisease
  /\ _criterions = EmptyMap
  /\ typeOfDisease = InitialTypeOfDisease(defaultTypeOfDisease)
  /\ _zipCode = NullString
  /\ _travelRadius = NoNumber
  /\ _phase = NullString
  /\ _recruitmentStatus = NullString
  /\ ops = 0
  /\ last = Step("new", NoResource, NoToday, NoNumber)
  /\ exception = NoException
  /\ query = NoQuery
  /\ lastResolved = Null
  /\ lastListed = Null
  /\ lookup = NoLookup
  /\ building = Built
  /\ request = NoRequest
  /\ supplied = [zipCode |-> NotSupplied, travelRadius |-> NotSupplied]
  /\ passes = [p \in Passes |-> NewPass(<< >>)]
  /\ heap = LoadedHeap

\* the category the disease table lists a coding under, Null if none does
ResolvedCategory(coding) ==
  LET listing == { k \in DOMAIN diseasesToCodes :
                     /\ coding.shape = "object"
                     /\ coding.system = SNOMED_CT_SYSTEM
                     /\ InSeq(diseasesToCodes[k][2], coding.code) }
  IN  IF listing = {} THEN Null
      ELSE diseasesToCodes[CHOOSE k \in listing : \A j \in listing : k <= j][1]

\* the category of the last of the first n codings that has one
LastResolvedIn(items, n) ==
  LET resolving == { i \in 1..n : ResolvedCategory(items[i]) # Null }
  IN  IF resolving = {} THEN Null
      ELSE ResolvedCategory(items[CHOOSE i \in resolving : \A j \in resolving : j <= i])

\* where a method that ended with ex leaves the caller: the constructor
\* passes the exception on and no object comes to exist
After(ex) == IF pc = "constructor" /\ ex # NoException THEN "thrown" ELSE pc

CanStep(at) == pc = at /\ ops < MaxOps

Effect(op, resource, today, age, criterions, ex) ==
  /\ _criterions' = criterions
  /\ exception' = ex
  /\ pc' = After(ex)
  /\ ops' = ops + 1
  /\ last' = Step(op, resource, today, age)

DoCondition(condition) ==
  LET r == addCondition(_criterions, typeOfDisease, condition)
      resolved == LastResolvedIn(condition.code.items, r.examined)
      listed == LastResolvedIn(condition.code.items, Len(condition.code.items))
  IN  /\ Effect("addCondition", condition, NoToday, NoNumber, r.criterions, r.ex)
      /\ typeOfDisease' = r.typeOfDisease
      /\ lastResolved' = IF resolved # Null THEN resolved ELSE lastResolved
      /\ lastListed' = IF listed # Null THEN listed ELSE lastListed
      /\ UNCHANGED << defaultTypeOfDisease, _zipCode, _travelRadius, _phase,
                      _recruitmentStatus, query, lookup, elsewhere >>

DoObservation(observation) ==
  LET r == addObservation(_criterions, observation)
  IN  /\ Effect("addObservation", observation, NoToday, NoNumber, r.criterions, r.ex)
      /\ UNCHANGED << defaultTypeOfDisease, typeOfDisease, _zipCode, _travelRadius, _phase,
                      _recruitmentStatus, query, lastResolved, lastListed, lookup, elsewhere >>

DoMedicationStatement(medicationStatement) ==
  LET r == addMedicationStatement(_criterions, medicationStatement)
  IN  /\ Effect("addMedicationStatement", medicationStatement, NoToday, NoNumber,
                r.criterions, r.ex)
      /\ UNCHANGED << defaultTypeOfDisease, typeOfDisease, _zipCode, _travelRadius, _phase,
                      _recruitmentStatus, query, lastResolved, lastListed, lookup, elsewhere >>

DoProcedure(procedure) ==
  LET r == addProcedure(_criterions, procedure)
  IN  /\ Effect("addProcedure", procedure, NoToday, NoNumber, r.criterions, r.ex)
      /\ UNCHANGED << defaultTypeOfDisease, typeOfDisease, _zipCode, _travelRadius, _phase,
                      _recruitmentStatus, query, lastResolved, lastListed, lookup, elsewhere >>

\* the clock is read only once the birth date has matched
ReadsClock(patient) ==
  BirthDateMatches(patient.birthDate, BirthDateParts(patient.birthDate.chars))

DoPatient(patient) ==
  \E today \in IF ReadsClock(patient) THEN Todays ELSE { NoToday } :
    LET r == addPatient(_criterions, patient, today)
    IN  /\ Effect("addPatient", patient, today, r.age, r.criterions, NoException)
        /\ UNCHANGED << defaultTypeOfDisease, typeOfDisease, _zipCode, _travelRadius, _phase,
                        _recruitmentStatus, query, lastResolved, lastListed, lookup, elsewhere >>

\* the loop over resource.parameter, on the four fields it writes
RECURSIVE ScanParameter(_, _, _)
ScanParameter(f, parameter, i) ==
  IF i > Len(parameter) THEN f
  ELSE LET name == parameter[i].name
           value == parameter[i].valueString
       IN  ScanParameter(
             CASE name = "zipCode" -> [f EXCEPT !.zipCode = value]
               [] name = "travelRadius" -> [f EXCEPT !.travelRadius = parseFloat(value)]
               [] name = "phase" -> [f EXCEPT !.phase = value]
               [] name = "recruitmentStatus" -> [f EXCEPT !.recruitmentStatus = value]
               [] OTHER -> f,
             parameter, i + 1)

\* the valueString of the last parameter of the list with the name, before
\* if there is none
LastSupplied(parameter, name, before) ==
  LET named == { i \in DOMAIN parameter : parameter[i].name = name }
  IN  IF named = {} THEN before
      ELSE parameter[CHOOSE i \in named : \A j \in named : j <= i].valueString

\* --- the constructor: one step for each entry of the bundle ----------------

ScanParameters ==
  /\ CanStep("constructor")
  /\ \E resource \in ParametersResources :
       LET f == ScanParameter([zipCode |-> _zipCode, travelRadius |-> _travelRadius,
                               phase |-> _phase, recruitmentStatus |-> _recruitmentStatus],
                              resource.parameter, 1)
       IN  /\ Effect("Parameters", resource, NoToday, NoNumber, _criterions,
                     IF resource.isArray THEN NoException ELSE TypeError)
           /\ _zipCode' = f.zipCode
           /\ _travelRadius' = f.travelRadius
           /\ _phase' = f.phase
           /\ _recruitmentStatus' = f.recruitmentStatus
           /\ supplied' = [zipCode |-> LastSupplied(resource.parameter, "zipCode",
                                                    supplied.zipCode),
                            travelRadius |-> LastSupplied(resource.parameter, "travelRadius",
                                                         supplied.travelRadius)]
           /\ UNCHANGED << defaultTypeOfDisease, typeOfDisease, query, lastResolved,
                           lastListed, lookup, building, request, passes, heap >>

ScanCondition == CanStep("constructor") /\ \E resource \in Conditions : DoCondition(resource)

ScanObservation == CanStep("constructor") /\ \E resource \in Observations : DoObservation(resource)

ScanMedicationStatement ==
  CanStep("constructor") /\ \E resource \in MedicationStatements : DoMedicationStatement(resource)

ScanProcedure == CanStep("constructor") /\ \E resource \in Procedures : DoProcedure(resource)

ScanPatient == CanStep("constructor") /\ \E resource \in Patients : DoPatient(resource)

ScanOtherEntry ==
  /\ CanStep("constructor")
  /\ \E entry \in OtherEntries :
       Effect("skip", entry, NoToday, NoNumber, _criterions, NoException)
  /\ UNCHANGED << defaultTypeOfDisease, typeOfDisease, _zipCode, _travelRadius, _phase,
                  _recruitmentStatus, query, lastResolved, lastListed, lookup, elsewhere >>

\* the end of the bundle: the constructor returns the object
Construct ==
  /\ pc = "constructor"
  /\ pc' = "constructed"
  /\ last' = Step("constructor", NoResource, NoToday, NoNumber)
  /\ exception' = NoException
  /\ UNCHANGED << defaultTypeOfDisease, fields, ops, query, lastResolved, lastListed, lookup, elsewhere >>

\* --- calls on the constructed object ----------------------------------------

CallAddCondition == CanStep("constructed") /\ \E resource \in Conditions : DoCondition(resource)

CallAddObservation ==
  CanStep("constructed") /\ \E resource \in Observations : DoObservation(resource)

CallAddMedicationStatement ==
  CanStep("constructed") /\ \E resource \in MedicationStatements : DoMedicationStatement(resource)

CallAddProcedure == CanStep("constructed") /\ \E resource \in Procedures : DoProcedure(resource)

CallAddPatient == CanStep("constructed") /\ \E resource \in Patients : DoPatient(resource)

\* the fields of the object as a record
This ==
  [_criterions |-> _criterions, typeOfDisease |-> typeOfDisease, _zipCode |-> _zipCode,
   _travelRadius |-> _travelRadius, _phase |-> _phase,
   _recruitmentStatus |-> _recruitmentStatus]

\* a faulty variant of AfterRead: the default radius is stored in the object,
\* this._travelRadius = 100, and not in the query alone
DefaultRadiusStored(this) ==
  [this EXCEPT !._travelRadius = IF @ = NoNumber THEN DEFAULT_RADIUS ELSE @]

\* the fields once toQuery or toString has returned or thrown: neither
\* assigns to a field of this
AfterRead(this) == this

Assign(this) ==
  /\ _criterions' = this._criterions
  /\ typeOfDisease' = this.typeOfDisease
  /\ _zipCode' = this._zipCode
  /\ _travelRadius' = this._travelRadius
  /\ _phase' = this._phase
  /\ _recruitmentStatus' = this._recruitmentStatus

CallToQuery ==
  /\ pc = "constructed"
  /\ LET q == toQuery(typeOfDisease, _zipCode, _travelRadius)
     IN  /\ query' = q
         /\ exception' = IF q.result = "Error" THEN "Error" ELSE NoException
  /\ last' = Step("toQuery", NoResource, NoToday, NoNumber)
  /\ Assign(AfterRead(This))
  /\ UNCHANGED << pc, defaultTypeOfDisease, ops, lastResolved, lastListed, lookup, elsewhere >>

\* toString: the text it returns, as what the text is made of
toString(this) ==
  IF this.typeOfDisease = Null
    THEN [fn |-> "toString", valid |-> FALSE, criterions |-> this._criterions,
          query |-> NoQuery]
    ELSE [fn |-> "toString", valid |-> TRUE, criterions |-> this._criterions,
          query |-> toQuery(this.typeOfDisease, this._zipCode, this._travelRadius)]

CallToString ==
  /\ pc = "constructed"
  /\ lookup' = toString(This)
  /\ exception' = IF toString(This).query.result = "Error" THEN "Error" ELSE NoException
  /\ last' = Step("toString", NoResource, NoToday, NoNumber)
  /\ Assign(AfterRead(This))
  /\ UNCHANGED << pc, defaultTypeOfDisease, ops, query, lastResolved, lastListed, elsewhere >>

\* query.criterions: the object toQuery put in the query is _criterions itself
query_criterions == _criterions

Next ==
  \/ ScanParameters
  \/ ScanCondition
  \/ ScanObservation
  \/ ScanMedicationStatement
  \/ ScanProcedure
  \/ ScanPatient
  \/ ScanOtherEntry
  \/ Construct
  \/ CallAddCondition
  \/ CallAddObservation
  \/ CallAddMedicationStatement
  \/ CallAddProcedure
  \/ CallAddPatient
  \/ CallToQuery

Spec == Init /\ [][Next]_vars

\* ------------------------------------------------------------------------
\* The lookup functions of ancora-mappings, called on their own
\* ------------------------------------------------------------------------

LookupSystems == { LOINC_SYSTEM, RX_NORM_SYSTEM, SNOMED_CT_SYSTEM, EXAMPLE_SYSTEM, "" }

LookupCodes ==
  { "98489-8", "79210-1", "203852", "1295391", "326072005", "254612002", "93655004",
    POSITIVE_CODE, NEGATIVE_CODE, ECOG_CODE, KARNOFSKY_CODE, "21908-9", "unknown", "0", "" }

CallFindQueryFlagsForCode ==
  /\ \E system \in LookupSystems, code \in LookupCodes :
       lookup' = [fn |-> "findQueryFlagsForCode", system |-> system, code |-> code,
                  result |-> findQueryFlagsForCode(system, code)]
  /\ UNCHANGED << pc, defaultTypeOfDisease, fields, ops, last, exception, query,
                  lastResolved, lastListed, elsewhere >>

CallFindDiseaseTypeForCode ==
  /\ \E system \in LookupSystems, code \in LookupCodes :
       lookup' = [fn |-> "findDiseaseTypeForCode", system |-> system, code |-> code,
                  result |-> findDiseaseTypeForCode(system, code)]
  /\ UNCHANGED << pc, defaultTypeOfDisease, fields, ops, last, exception, query,
                  lastResolved, lastListed, elsewhere >>

StageLookupSystems ==
  { CANCERSTAGING_SYSTEM, SNOMED_CT_SYSTEM, EXAMPLE_SYSTEM, LOINC_SYSTEM, Undefined }

StageLookupCodes ==
  { Str(chars) :
      chars \in { << "0" >>, << "3" >>, << "3", "A" >>, << "3", "a" >>, << "3", "B" >>,
                  << "3", "b" >>, << "4" >>, << "4", "A" >>, << "4", "a" >>, << "5" >>,
                  << "3", "C" >>, << >>,
                  << "2", "6", "1", "6", "1", "3", "0", "0", "9" >> } }
  \cup { NoString }

CallTumorStageForCode ==
  /\ \E system \in StageLookupSystems, code \in StageLookupCodes :
       lookup' = [fn |-> "tumorStageForCode", system |-> system, code |-> code,
                  result |-> tumorStageForCode(system, code)]
  /\ UNCHANGED << pc, defaultTypeOfDisease, fields, ops, last, exception, query,
                  lastResolved, lastListed, elsewhere >>

NextMappings ==
  \/ CallFindQueryFlagsForCode
  \/ CallFindDiseaseTypeForCode
  \/ CallTumorStageForCode

SpecMappings == Init /\ [][NextMappings]_vars

\* ------------------------------------------------------------------------
\* The loop that builds codesToDiseaseType, over disease tables of up to
\* MaxEntries entries (diseasesToCodes is one of them); some list a code
\* twice, under one category or under two
\* ------------------------------------------------------------------------

MaxEntries == 2

TableDiseases == { "pancreatic_cancer", "melanoma" }
TableCodes == { "326072005", "93655004" }

TableEntries ==
  { << disease, codes >> :
      disease \in TableDiseases,
      codes \in { << a >> : a \in TableCodes } \cup { << a, b >> : a \in TableCodes, b \in TableCodes } }

DiseaseTables ==
  { diseasesToCodes }
  \cup UNION { [1..n -> TableEntries] : n \in 1..MaxEntries }

InitIndex ==
  /\ pc = "constructor"
  /\ defaultTypeOfDisease = Undefined
  /\ _criterions = EmptyMap
  /\ typeOfDisease = Null
  /\ _zipCode = NullString
  /\ _travelRadius = NoNumber
  /\ _phase = NullString
  /\ _recruitmentStatus = NullString
  /\ ops = 0
  /\ last = Step("new", NoResource, NoToday, NoNumber)
  /\ exception = NoException
  /\ query = NoQuery
  /\ lastResolved = Null
  /\ lastListed = Null
  /\ lookup = NoLookup
  /\ building \in { Building(table) : table \in DiseaseTables }
  /\ request = NoRequest
  /\ supplied = [zipCode |-> NotSupplied, travelRadius |-> NotSupplied]
  /\ passes = [p \in Passes |-> NewPass(<< >>)]
  /\ heap = LoadedHeap

\* one turn of the inner loop
RegisterDiseaseCode ==
  /\ building.done < Len(building.pairs)
  /\ LET pair == building.pairs[building.done + 1]
         existing == DiseaseIn(building.index, pair.code)
     IN  building' = [building EXCEPT
                        !.done = building.done + 1,
                        !.index = InsertDisease(building.index, pair.disease, pair.code),
                        !.warnings = WarningsAfter(building.warnings, existing, pair)]
  /\ UNCHANGED << pc, defaultTypeOfDisease, fields, ops, last, exception, query,
                  lastResolved, lastListed, lookup, request, supplied, passes,
                  heap >>

NextIndex == RegisterDiseaseCode

SpecIndex == InitIndex /\ [][NextIndex]_vars

\* ------------------------------------------------------------------------
\* getMatchingClinicalTrials: the bundle is scanned into an AncoraAPIQuery
\* (no default category), then sendQuery posts the query and turns the
\* reply into the outcome of the promise it returned
\* ------------------------------------------------------------------------

MaxTrials == 2

\* an element of the reply array: whether it is an object, whether its
\* fields other than arms pass isAncoraTrial, and its arms (Undefined if it
\* is no array, else the entries, each "object" or "null")
Trial(shape, others, arms) == [shape |-> shape, fields |-> others, arms |-> arms]

NoArms == [isArray |-> FALSE, items |-> << >>]
Arms(items) == [isArray |-> TRUE, items |-> items]

Trials ==
  { Trial("object", "complete", Arms(<< "object" >>)),
    Trial("object", "complete", Arms(<< >>)),
    Trial("object", "complete", Arms(<< "object", "null" >>)),
    Trial("object", "incomplete", Arms(<< "object" >>)),
    Trial("object", "complete", NoArms),
    Trial("null", "incomplete", NoArms) }

isAncoraTrial(o) == o.shape = "object" /\ o.arms.isArray /\ o.fields = "complete"

\* trial.arms.map(arm => ({ name: arm["arm name"], ... })) in
\* convertToResearchStudy throws on an arm that is null
ConvertThrows(trial) == \E i \in DOMAIN trial.arms.items : trial.arms.items[i] = "null"

\* the loop of convertResponseToSearchSet from the i-th element on: the
\* entries pushed (each the id given and the place of the trial in the
\* response) and the exception that ended it
RECURSIVE ConvertTrials(_, _, _, _)
ConvertTrials(response, i, entries, id) ==
  IF i > Len(response) THEN [entries |-> entries, ex |-> NoException]
  ELSE IF ~isAncoraTrial(response[i]) THEN ConvertTrials(response, i + 1, entries, id)
  ELSE IF ConvertThrows(response[i]) THEN [entries |-> entries, ex |-> TypeError]
  ELSE ConvertTrials(response, i + 1, Append(entries, [id |-> id, trial |-> i]), id + 1)

\* how a promise settled
Resolved(entries, updated) ==
  [state |-> "resolved", entries |-> entries, updated |-> updated]
Rejected(error, head, status, tail) ==
  [state |-> "rejected", error |-> error, head |-> head, status |-> status, tail |-> tail]

\* updated tells whether ctgService.updateSearchSetEntries ran first
convertResponseToSearchSet(response, ctgService) ==
  LET r == ConvertTrials(response, 1, << >>, 0)
  IN  IF r.ex # NoException THEN Rejected(TypeError, "", 0, "")
      ELSE Resolved(r.entries, ctgService)

\* the bodies of a reply: text that is no JSON, or a JSON value
NotJSON == [json |-> FALSE, type |-> "none", items |-> << >>, error |-> NoString]
JSONArray(items) == [json |-> TRUE, type |-> "array", items |-> items, error |-> NoString]
JSONObject(error) == [json |-> TRUE, type |-> "object", items |-> << >>, error |-> error]
JSONOther(type) == [json |-> TRUE, type |-> type, items |-> << >>, error |-> NoString]

Bodies ==
  { NotJSON, JSONOther("null"), JSONOther("string"), JSONOther("number"),
    JSONObject(Str(<< "T", "e", "s", "t" >>)), JSONObject(Str(<< >>)),
    JSONObject(NoString), JSONObject(NullString) }
  \cup { JSONArray(items) : items \in UNION { [1..n -> Trials] : n \in 0..MaxTrials } }

Statuses == { 200, 201, 404, 500 }

\* typeof o === "object" && o !== null && typeof o.error === "string"
isQueryErrorResponse(o) == o.type = "object" /\ o.error.kind = "string"

PARSE_MESSAGE == "Unable to parse response from server"
SERVICE_MESSAGE == "Error from service: "
STATUS_MESSAGE == "Server returned "

\* response.status === 200
IsOK(status) == status = 200

\* sendQuery from the reply on
HandleResponse(status, body, ctgService) ==
  IF IsOK(status)
    THEN IF ~body.json THEN Rejected("Error", PARSE_MESSAGE, 0, ": invalid JSON")
         ELSE IF body.type = "array" THEN convertResponseToSearchSet(body.items, ctgService)
         ELSE IF isQueryErrorResponse(body)
           THEN Rejected("APIError", SERVICE_MESSAGE, 0, body.error.chars)
         ELSE Rejected("Error", PARSE_MESSAGE, 0, ": invalid JSON object")
    ELSE Rejected("APIError", STATUS_MESSAGE, status, "statusText")

TRANSPORT_ERROR == "FetchError"

NoReply == [status |-> 0, body |-> NotJSON]

\* the promise sendQuery returned, not settled yet
Pending == Rejected("none", "", 0, "")

\* ctgService.updateSearchSetEntries: how often it was called, the entries
\* it was given and whether the promise it returned has resolved
NoUpdate == [calls |-> 0, entries |-> << >>, completed |-> FALSE]

\* the request once sendQuery has dealt with the reply: with a backup
\* service and an array converted, updateSearchSetEntries(entries) is called
\* and the SearchSet waits for it; in every other case the promise settles
AfterReply(r, status, body, outcome) ==
  IF outcome.state = "resolved" /\ outcome.updated
    THEN [r EXCEPT !.at = "updating",
                   !.reply = [status |-> status, body |-> body],
                   !.update = [calls |-> r.update.calls + 1, entries |-> outcome.entries,
                               completed |-> FALSE]]
    ELSE [r EXCEPT !.at = "settled",
                   !.reply = [status |-> status, body |-> body],
                   !.outcome = outcome]

\* sendQuery up to the await of fetch: toQuery throws before anything is
\* sent, else the query is posted
CallSendQuery ==
  /\ pc = "constructed"
  /\ request.at = "none"
  /\ \E ctgService \in BOOLEAN :
       LET q == toQuery(typeOfDisease, _zipCode, _travelRadius)
       IN  request' =
             IF q.result = "Error"
               THEN [at |-> "settled", posted |-> FALSE, ctgService |-> ctgService,
                     transport |-> FALSE, reply |-> NoReply, update |-> NoUpdate,
                     outcome |-> Rejected("Error", q.message, 0, "")]
               ELSE [at |-> "fetching", posted |-> TRUE, ctgService |-> ctgService,
                     transport |-> FALSE, reply |-> NoReply, update |-> NoUpdate,
                     outcome |-> Pending]
  /\ UNCHANGED << pc, defaultTypeOfDisease, fields, ops, last, exception, query,
                  lastResolved, lastListed, lookup, building, supplied, passes,
                  heap >>

\* the server replies
FetchResolves ==
  /\ request.at = "fetching"
  /\ \E status \in Statuses, body \in Bodies :
       request' = AfterReply(request, status, body,
                             HandleResponse(status, body, request.ctgService))
  /\ UNCHANGED << pc, defaultTypeOfDisease, fields, ops, last, exception, query,
                  lastResolved, lastListed, lookup, building, supplied, passes,
                  heap >>

\* the request fails before a reply: the await throws what fetch rejected with
FetchRejects ==
  /\ request.at = "fetching"
  /\ request' = [request EXCEPT
                   !.at = "settled",
                   !.transport = TRUE,
                   !.outcome = Rejected(TRANSPORT_ERROR, "", 0, "")]
  /\ UNCHANGED << pc, defaultTypeOfDisease, fields, ops, last, exception, query,
                  lastResolved, lastListed, lookup, building, supplied, passes,
                  heap >>

\* updateSearchSetEntries(entries).then(() => new SearchSet(entries))
UpdateCompletes ==
  /\ request.at = "updating"
  /\ request' = [request EXCEPT
                   !.at = "settled",
                   !.update.completed = TRUE,
                   !.outcome = Resolved(request.update.entries, TRUE)]
  /\ UNCHANGED << pc, defaultTypeOfDisease, fields, ops, last, exception, query,
                  lastResolved, lastListed, lookup, building, supplied, passes,
                  heap >>

InitSend ==
  /\ Init
  /\ defaultTypeOfDisease = Undefined

NextSend ==
  \/ ScanCondition
  \/ ScanParameters
  \/ ScanOtherEntry
  \/ Construct
  \/ CallSendQuery
  \/ FetchResolves
  \/ FetchRejects
  \/ UpdateCompletes

SpecSend == InitSend /\ [][NextSend]_vars

\* ------------------------------------------------------------------------
\* convertToResearchStudy, on the three fields it maps through a table:
\* recruiting_status, trial_phase (strings) and primary_purpose (the sequence
\* of its characters, as it is rewritten character by character)
\* ------------------------------------------------------------------------

UpperLetters == << "A", "B", "C", "D", "E", "F", "G", "H", "I", "J", "K", "L", "M", "N", "O", "P", "Q", "R", "S", "T", "U", "V", "W", "X", "Y", "Z" >>
LowerLetters == << "a", "b", "c", "d", "e", "f", "g", "h", "i", "j", "k", "l", "m", "n", "o", "p", "q", "r", "s", "t", "u", "v", "w", "x", "y", "z" >>

\* String.prototype.toLowerCase on one character
LowerLetter(c) ==
  IF InSeq(UpperLetters, c)
    THEN LowerLetters[CHOOSE i \in DOMAIN UpperLetters : UpperLetters[i] = c]
    ELSE c

\* displayString.toLowerCase().replace(/[ /]/g, '-')
convertToFhirConstant(displayString) ==
  [i \in DOMAIN displayString |->
     IF displayString[i] \in { " ", "/" } THEN "-" ELSE LowerLetter(displayString[i])]

primaryPurposes ==
  { << "t", "r", "e", "a", "t", "m", "e", "n", "t" >>,
    << "p", "r", "e", "v", "e", "n", "t", "i", "o", "n" >>,
    << "d", "i", "a", "g", "n", "o", "s", "t", "i", "c" >>,
    << "s", "u", "p", "p", "o", "r", "t", "i", "v", "e", "-", "c", "a", "r", "e" >>,
    << "s", "c", "r", "e", "e", "n", "i", "n", "g" >>,
    << "h", "e", "a", "l", "t", "h", "-", "s", "e", "r", "v", "i", "c", "e", "s", "-", "r", "e", "s", "e", "a", "r", "c", "h" >>,
    << "b", "a", "s", "i", "c", "-", "s", "c", "i", "e", "n", "c", "e" >>,
    << "d", "e", "v", "i", "c", "e", "-", "f", "e", "a", "s", "i", "b", "i", "l", "i", "t", "y" >> }

NoConcept == [defined |-> FALSE, code |-> << >>, text |-> << >>]

parsePrimaryPurpose(display) ==
  LET fhirValue == convertToFhirConstant(display)
  IN  IF fhirValue \in primaryPurposes
        THEN [defined |-> TRUE, code |-> fhirValue, text |-> fhirValue]
        ELSE NoConcept

recruitingStatusMapping ==
  [ k \in { "Available", "Recruiting", "Not yet recruiting", "Enrolling by invitation" } |->
      CASE k = "Available" -> "active"
        [] k = "Recruiting" -> "active"
        [] k = "Not yet recruiting" -> "approved"
        [] k = "Enrolling by invitation" -> "temporarily-closed-to-accrual" ]

phaseMapping ==
  [ k \in { "N/A", "Not Applicable", "Early Phase 1", "Phase 1", "Phase 1/Phase 2", "Phase 2",
            "Phase 2/Phase 3", "Phase 3", "Phase 4" } |->
      CASE k = "N/A" -> "n-a"
        [] k = "Not Applicable" -> "n-a"
        [] k = "Early Phase 1" -> "early-phase-1"
        [] k = "Phase 1" -> "phase-1"
        [] k = "Phase 1/Phase 2" -> "phase-1-phase-2"
        [] k = "Phase 2" -> "phase-2"
        [] k = "Phase 2/Phase 3" -> "phase-2-phase-3"
        [] k = "Phase 3" -> "phase-3"
        [] k = "Phase 4" -> "phase-4" ]

\* Map.prototype.get: undefined for a key the map does not hold
MapGet(map, key) == IF key \in DOMAIN map THEN map[key] ELSE Undefined

\* what a field of the ResearchStudy holds once the function has run:
\* assigned tells whether the function assigned it at all
Unassigned == [assigned |-> FALSE, value |-> Undefined]
Assigned(value) == [assigned |-> TRUE, value |-> value]

NoPhase == [assigned |-> FALSE, code |-> Undefined, display |-> Undefined, text |-> Undefined]

\* if (status !== null) result.status = status, and the same test before
\* result.phase is built: undefined, which get gives for an unknown key, is
\* not null
convertToResearchStudy(trial, id) ==
  LET status == MapGet(recruitingStatusMapping, trial.recruiting_status)
      phase == MapGet(phaseMapping, trial.trial_phase)
  IN  [id |-> id,
       status |-> IF status # Null THEN Assigned(status) ELSE Unassigned,
       phase |-> IF phase # Null
                   THEN [assigned |-> TRUE, code |-> phase, display |-> trial.trial_phase,
                         text |-> trial.trial_phase]
                   ELSE NoPhase,
       primaryPurposeType |-> parsePrimaryPurpose(trial.primary_purpose)]

RecruitingStatuses ==
  { "Available", "Recruiting", "Not yet recruiting", "Enrolling by invitation",
    "unknown value", "Completed" }

TrialPhases == { "N/A", "Not Applicable", "Phase 1/Phase 2", "Phase 4", "unknown phase", "" }

PrimaryPurposes ==
  { << "S", "c", "r", "e", "e", "n", "i", "n", "g" >>,
    << "S", "u", "p", "p", "o", "r", "t", "i", "v", "e", " ", "C", "a", "r", "e" >>,
    << "T", "R", "E", "A", "T", "M", "E", "N", "T" >>,
    << "b", "a", "s", "i", "c", "/", "s", "c", "i", "e", "n", "c", "e" >>,
    << "u", "n", "k", "n", "o", "w", "n", " ", "p", "r", "i", "m", "a", "r", "y", " ", "p", "u", "r", "p", "o", "s", "e" >>,
    << "H", "e", "a", "l", "t", "h", " ", "S", "e", "r", "v", "i", "c", "e", "s", " ", "R", "e", "s", "e", "a", "r", "c", "h" >>,
    <<  >> }

StudyIds == 0..1

\* one call, on any of the trials
CallConvertToResearchStudy ==
  /\ lookup = NoLookup
  /\ \E recruiting_status \in RecruitingStatuses, trial_phase \in TrialPhases,
        primary_purpose \in PrimaryPurposes, id \in StudyIds :
       LET trial == [recruiting_status |-> recruiting_status, trial_phase |-> trial_phase,
                     primary_purpose |-> primary_purpose]
       IN  lookup' = [fn |-> "convertToResearchStudy", trial |-> trial,
                      result |-> convertToResearchStudy(trial, id)]
  /\ UNCHANGED << pc, defaultTypeOfDisease, fields, ops, last, exception, query,
                  lastResolved, lastListed, elsewhere >>

NextStudy == CallConvertToResearchStudy

SpecStudy == Init /\ [][NextStudy]_vars

\* ------------------------------------------------------------------------
\* addPatient under the mocked clock of the 'parses ages' tests: birth dates
\* around 2002-02-03, read at 2023-02-03T00:00:00Z and one millisecond before
\* ------------------------------------------------------------------------

AnniversaryBirthDates ==
  { << "2", "0", "0", "2", "-", "0", "2", "-", "0", "1" >>,
    << "2", "0", "0", "2", "-", "0", "2", "-", "0", "3" >>,
    << "2", "0", "0", "2", "-", "0", "2", "-", "0", "4" >>,
    << "2", "0", "2", "3", "-", "0", "1", "-", "0", "1" >> }

AnniversaryPatients ==
  { Patient(Str(chars), gender) :
      chars \in AnniversaryBirthDates, gender \in { Undefined, "male", "female" } }

AnniversaryInstants == { Instant(2023, 2, 2, LastMillisecond), Instant(2023, 2, 3, 0) }

AddPatientAt(patient) ==
  \E today \in IF ReadsClock(patient) THEN AnniversaryInstants ELSE { NoToday } :
    LET r == addPatient(_criterions, patient, today)
    IN  /\ Effect("addPatient", patient, today, r.age, r.criterions, NoException)
        /\ UNCHANGED << defaultTypeOfDisease, typeOfDisease, _zipCode, _travelRadius, _phase,
                        _recruitmentStatus, query, lastResolved, lastListed, lookup, elsewhere >>

ScanPatientAt ==
  CanStep("constructor") /\ \E resource \in AnniversaryPatients : AddPatientAt(resource)

CallAddPatientAt ==
  CanStep("constructed") /\ \E resource \in AnniversaryPatients : AddPatientAt(resource)

NextAge ==
  \/ ScanPatientAt
  \/ Construct
  \/ CallAddPatientAt

SpecAge == Init /\ [][NextAge]_vars

\* ------------------------------------------------------------------------
\* getMatchingClinicalTrials called twice, the two constructors taking their
\* turns in any order, and a caller of findQueryFlagsForCode that changes the
\* array it was given
\* ------------------------------------------------------------------------

Bundles ==
  { << Condition(CodeableConcept(<< PANC >>), NoExtension),
       Biomarker(<< FLT3 >>, << POSITIVE >>) >>,
    << Biomarker(<< FLT3 >>, << NEGATIVE >>),
       Condition(CodeableConcept(<< MELA >>), NoExtension) >>,
    << Biomarker(<< FLT3 >>, << POSITIVE >>), Biomarker(<< FLT3 >>, << NEGATIVE >>) >>,
    << Condition(CodeableConcept(<< NullCoding >>), NoExtension),
       Biomarker(<< FLT3 >>, << POSITIVE >>) >>,
    << MedicationStatement(CodeableConcept(<< LHRH >>)),
       Procedure("completed", CodeableConcept(<< ADT >>)) >> }

InitPasses ==
  /\ Init
  /\ defaultTypeOfDisease = Undefined

\* getMatchingClinicalTrials(patientBundle): new AncoraAPIQuery(patientBundle)
StartPass ==
  \E p \in Passes, bundle \in Bundles :
    /\ passes[p].bundle = << >>
    /\ passes' = [passes EXCEPT ![p] = NewPass(bundle)]
    /\ UNCHANGED << pc, defaultTypeOfDisease, fields, ops, last, exception, query,
                    lastResolved, lastListed, lookup, building, request, supplied, heap >>

\* the passes after pass p went over an entry with the outcome r: the fields
\* written are those of the instance owner
AfterEntry(p, owner, r) ==
  [q \in Passes |->
     [bundle |-> passes[q].bundle,
      at |-> IF q = p THEN passes[q].at + 1 ELSE passes[q].at,
      _criterions |-> IF q = owner THEN r._criterions ELSE passes[q]._criterions,
      typeOfDisease |-> IF q = owner THEN r.typeOfDisease ELSE passes[q].typeOfDisease,
      exception |-> IF q = p THEN r.exception ELSE passes[q].exception,
      answer |-> passes[q].answer]]

\* the constructor of one of the passes goes over its next entry
PassScansEntry ==
  \E p \in Passes :
    /\ passes[p].at < Len(passes[p].bundle)
    /\ passes[p].exception = NoException
    /\ passes' = AfterEntry(p, Accumulator(p),
                            ScanEntry(passes[Accumulator(p)],
                                      passes[p].bundle[passes[p].at + 1]))
    /\ UNCHANGED << pc, defaultTypeOfDisease, fields, ops, last, exception, query,
                    lastResolved, lastListed, lookup, building, request, supplied, heap >>

\* sendQuery: query.toQuery(), once the constructor returned
PassToQuery ==
  \E p \in Passes :
    /\ passes[p].bundle # << >>
    /\ passes[p].at = Len(passes[p].bundle)
    /\ passes[p].exception = NoException
    /\ ~passes[p].answer.asked
    /\ passes' = [passes EXCEPT ![p].answer = Answer(passes[Accumulator(p)])]
    /\ UNCHANGED << pc, defaultTypeOfDisease, fields, ops, last, exception, query,
                    lastResolved, lastListed, lookup, building, request, supplied, heap >>

\* findQueryFlagsForCode(system, code) by a caller that then pushes a flag
\* onto the array it got
CallerModifiesFlags ==
  /\ heap.held = << >>
  /\ \E system \in DOMAIN heap.sets, flag \in Flags :
       \E code \in DOMAIN heap.sets[system] :
         heap' = Push(heap, ArrayFrom(system, code, heap.sets[system][code]), flag)
  /\ UNCHANGED << pc, defaultTypeOfDisease, fields, ops, last, exception, query,
                  lastResolved, lastListed, lookup, building, request, supplied, passes >>

NextPasses ==
  \/ StartPass
  \/ PassScansEntry
  \/ PassToQuery
  \/ CallerModifiesFlags

SpecPasses == InitPasses /\ [][NextPasses]_vars

\* ------------------------------------------------------------------------
\* An AncoraAPIQuery that is read: toQuery and toString called any number of
\* times on the object, between calls of addCondition
\* ------------------------------------------------------------------------

NextRead ==
  \/ ScanCondition
  \/ ScanParameters
  \/ Construct
  \/ CallAddCondition
  \/ CallToQuery
  \/ CallToString

SpecRead == Init /\ [][NextRead]_vars

\* ------------------------------------------------------------------------
\* Properties
\* ------------------------------------------------------------------------

\* the flags the criterion-flag table lists a (system, code) pair under
ListingFlags(system, code) ==
  { ancoraToCodes[k][1] :
      k \in { k \in DOMAIN ancoraToCodes :
                \E j \in DOMAIN ancoraToCodes[k][2] :
                  /\ ancoraToCodes[k][2][j][1] = system
                  /\ InSeq(ancoraToCodes[k][2][j][2], code) } }

Registered(system, code) == ListingFlags(system, code) # {}

NoDuplicates(s) == \A i, j \in DOMAIN s : s[i] = s[j] => i = j

\* the flags the table lists the codings of a coding list under
PrimaryFlags(concept) ==
  IF IsCodingArray(concept)
    THEN UNION { ListingFlags(concept.items[i].system, concept.items[i].code) :
                   i \in DOMAIN concept.items }
    ELSE {}

\* the SNOMED-CT codes in the value coding list of an observation
QualifierCodes(observation) ==
  IF IsCodingArray(observation.valueCodeableConcept)
    THEN { observation.valueCodeableConcept.items[i].code :
             i \in { i \in DOMAIN observation.valueCodeableConcept.items :
                       observation.valueCodeableConcept.items[i].system = SNOMED_CT_SYSTEM } }
    ELSE {}

HasFlag(criterions, flag, value) == flag \in DOMAIN criterions /\ criterions[flag] = value

SameCriterion(key) ==
  /\ (key \in DOMAIN _criterions') <=> (key \in DOMAIN _criterions)
  /\ key \in DOMAIN _criterions => _criterions'[key] = _criterions[key]

\* a step that is a call of the method op on the constructed object
Called(op) == pc = "constructed" /\ pc' = "constructed" /\ ops' = ops + 1 /\ last'.op = op

SuppliedDefault == IF defaultTypeOfDisease = Undefined THEN Null ELSE defaultTypeOfDisease

\* C1: toQuery fails, with the message about no supported type of disease,
\* exactly when no default was supplied and no Condition coding matched a
\* known disease code; in every other case it returns a query.
C1_ToQueryFailsExactlyWithoutDisease ==
  last.op = "toQuery" =>
    /\ query.result = "Error" <=> (defaultTypeOfDisease = Undefined /\ lastResolved = Null)
    /\ query.result = "Error" => query.message = NO_DISEASE_MESSAGE /\ exception = "Error"
    /\ query.result # "Error" => query.result = "returned" /\ exception = NoException

C1_Witness ==
  /\ last.op = "toQuery"
  /\ ops >= 1
  /\ query.result = "Error"
  /\ lastListed = Null

\* C2: with a default supplied and no Condition coding resolving to a
\* category (an empty bundle included), toQuery returns a query whose
\* type_of_disease is the default.
C2_DefaultAvoidsFailure ==
  (last.op = "toQuery" /\ defaultTypeOfDisease # Undefined /\ lastResolved = Null) =>
    query.result = "returned" /\ query.type_of_disease = defaultTypeOfDisease

C2_Witness ==
  /\ last.op = "toQuery"
  /\ defaultTypeOfDisease # Undefined
  /\ lastListed = Null
  /\ ops >= 1
  /\ query.result = "returned"
  /\ query.type_of_disease = defaultTypeOfDisease

\* C3: when the constructor has scanned the bundle, the disease category is
\* that of the last coding, in bundle order and then coding order, that the
\* disease table lists; it is the supplied default (or none) if there is no
\* such coding.
C3_LastResolvingCodingWins ==
  (pc = "constructed" /\ last.op = "constructor") =>
    typeOfDisease = IF lastListed # Null THEN lastListed ELSE SuppliedDefault

C3_Witness ==
  /\ pc = "constructed"
  /\ last.op = "constructor"
  /\ defaultTypeOfDisease # Undefined
  /\ ops = 2
  /\ lastListed = "melanoma"
  /\ typeOfDisease = "melanoma"

\* C4: for a pair the criterion-flag table lists, findQueryFlagsForCode
\* returns every flag that lists the pair, no other flag, and none twice.
C4_LookupReturnsRegisteredFlags ==
  (lookup.fn = "findQueryFlagsForCode" /\ Registered(lookup.system, lookup.code)) =>
    /\ lookup.result.kind = "array"
    /\ NoDuplicates(lookup.result.flags)
    /\ { lookup.result.flags[i] : i \in DOMAIN lookup.result.flags }
         = ListingFlags(lookup.system, lookup.code)

C4_Witness ==
  /\ lookup.fn = "findQueryFlagsForCode"
  /\ lookup.system = RX_NORM_SYSTEM
  /\ lookup.code = "203852"
  /\ lookup.result.kind = "array"
  /\ Len(lookup.result.flags) = 2

\* C5: for a pair the criterion-flag table does not list, whether its
\* system is unknown or known, findQueryFlagsForCode returns null and does
\* not throw.
C5_UnregisteredPairReturnsNull ==
  (lookup.fn = "findQueryFlagsForCode" /\ ~Registered(lookup.system, lookup.code)) =>
    lookup.result.kind = "null"

C5_Witness ==
  /\ lookup.fn = "findQueryFlagsForCode"
  /\ lookup.system = EXAMPLE_SYSTEM
  /\ lookup.code = "unknown"
  /\ lookup.result.kind = "null"

\* C6: addObservation of an Observation whose value codings hold the
\* SNOMED-CT Positive qualifier sets every flag listed for its primary
\* codings to true; with the Negative qualifier instead it sets them to
\* false, present in the criteria; no other flag (one the value coding
\* itself is listed under included) is touched.
C6_QualifierSetsPrimaryFlags ==
  [][ Called("addObservation") =>
        LET observation == last'.resource
            qualifiers == QualifierCodes(observation) \cap { POSITIVE_CODE, NEGATIVE_CODE }
        IN  /\ qualifiers = { POSITIVE_CODE } =>
                 \A flag \in PrimaryFlags(observation.code) : HasFlag(_criterions', flag, TRUE)
            /\ qualifiers = { NEGATIVE_CODE } =>
                 \A flag \in PrimaryFlags(observation.code) : HasFlag(_criterions', flag, FALSE)
            /\ Cardinality(qualifiers) = 1 =>
                 \A flag \in Flags \ PrimaryFlags(observation.code) : SameCriterion(flag)
    ]_vars

C6_Witness ==
  /\ pc = "constructed"
  /\ last.op = "addObservation"
  /\ exception = NoException
  /\ QualifierCodes(last.resource) = { NEGATIVE_CODE }
  /\ PrimaryFlags(last.resource.code) = { "lhrh_agonists", "ad_therapy" }
  /\ HasFlag(_criterions, "lhrh_agonists", FALSE)
  /\ HasFlag(_criterions, "ad_therapy", FALSE)

\* C7: addProcedure of a Procedure whose status is not 'completed' leaves
\* the criteria and the disease category as they were; of a completed one,
\* it sets every flag listed for its primary codings to true.
C7_OnlyCompletedProceduresCount ==
  [][ Called("addProcedure") =>
        LET procedure == last'.resource
        IN  /\ procedure.status # "completed" =>
                 _criterions' = _criterions /\ typeOfDisease' = typeOfDisease
            /\ procedure.status = "completed" =>
                 \A flag \in PrimaryFlags(procedure.code) : HasFlag(_criterions', flag, TRUE)
    ]_vars

C7_Witness ==
  /\ pc = "constructed"
  /\ last.op = "addProcedure"
  /\ last.resource.status = "entered-in-error"
  /\ PrimaryFlags(last.resource.code) # {}
  /\ _criterions = EmptyMap

\* a birth date written YYYY, YYYY-MM or YYYY-MM-DD, and the year, month
\* and day it names (a missing month is January, a missing day the 1st)
TwoDigits(s, i) == DigitValue(s[i]) * 10 + DigitValue(s[i + 1])

BirthYear(s) == TwoDigits(s, 1) * 100 + TwoDigits(s, 3)
BirthMonth(s) == IF Len(s) >= 7 THEN TwoDigits(s, 6) ELSE 1
BirthDay(s) == IF Len(s) = 10 THEN TwoDigits(s, 9) ELSE 1

IsLeapYear(y) == y % 4 = 0 /\ (y % 100 # 0 \/ y % 400 = 0)

DaysInMonth(y, m) ==
  IF m = 2 THEN (IF IsLeapYear(y) THEN 29 ELSE 28)
  ELSE IF m \in { 4, 6, 9, 11 } THEN 30 ELSE 31

IsCalendarDate(s) ==
  /\ Len(s) \in { 4, 7, 10 }
  /\ \A i \in DOMAIN s : IF i \in { 5, 8 } THEN s[i] = "-" ELSE IsDigit(s[i])
  /\ BirthMonth(s) \in 1..12
  /\ BirthDay(s) \in 1..DaysInMonth(BirthYear(s), BirthMonth(s))

\* the age in whole years at the instant now of someone born on s
AgeInYears(s, now) ==
  LET today == CivilFromDays(now.day)
      before == \/ today.month + 1 < BirthMonth(s)
                \/ today.month + 1 = BirthMonth(s) /\ today.date < BirthDay(s)
  IN  today.year - BirthYear(s) - (IF before THEN 1 ELSE 0)

\* C8: for a birth date written YYYY, YYYY-MM or YYYY-MM-DD, the age that
\* addPatient computes, before it is clamped, is the current UTC year less
\* the birth year, less one exactly when the current UTC (month, day) is
\* before the birth (month, day).
C8_AgeIsWholeYearsUTC ==
  (last.op = "addPatient" /\ last.resource.birthDate.kind = "string"
     /\ IsCalendarDate(last.resource.birthDate.chars)) =>
    last.age = AgeInYears(last.resource.birthDate.chars, last.today)

C8_Witness ==
  /\ last.op = "addPatient"
  /\ last.resource.birthDate = Str(<< "2", "0", "0", "2", "-", "0", "1", "-", "0", "1" >>)
  /\ last.today = Instant(2022, 12, 31, LastMillisecond)
  /\ last.age = 20
  /\ HasFlag(_criterions, "age", 20)

\* C9: in every state, an age criterion that is present is an integer from
\* 1 to 100, whatever birth date addPatient matched.
C9_AgeWithinRange ==
  "age" \in DOMAIN _criterions => _criterions["age"] \in 1..100

C9_Witness ==
  /\ last.op = "addPatient"
  /\ last.age > 100
  /\ HasFlag(_criterions, "age", 100)

\* a birth date that is missing or starts with no digit
Unparseable(birthDate) ==
  birthDate.kind # "string" \/ Len(birthDate.chars) = 0 \/ ~IsDigit(birthDate.chars[1])

IsStaging(observation) ==
  /\ IsCodingArray(observation.code)
  /\ \E i \in DOMAIN observation.code.items :
       /\ observation.code.items[i].shape = "object"
       /\ observation.code.items[i].code \in STAGE_LOINC_CODES

\* its value coding list holds the coding of stage 0
ValueIsStage0(observation) ==
  /\ IsCodingArray(observation.valueCodeableConcept)
  /\ InSeq(observation.valueCodeableConcept.items, STAGE_0)

\* C11: for a staging observation with no (or a malformed) value coding
\* list findTumorStage returns null without throwing, and for a staging
\* observation whose value coding is that of stage 0 it returns 0 and
\* addObservation writes tumor_stage = 0.
C11_StageZeroIsNotNoStage ==
  (last.op = "addObservation" /\ IsStaging(last.resource)) =>
    /\ ~IsCodingArray(last.resource.valueCodeableConcept) =>
         findTumorStage(last.resource).kind = "null"
    /\ ValueIsStage0(last.resource) =>
         /\ findTumorStage(last.resource) = [kind |-> "number", stage |-> 0]
         /\ HasFlag(_criterions, "tumor_stage", 0)

C11_Witness ==
  /\ last.op = "addObservation"
  /\ IsStaging(last.resource)
  /\ ValueIsStage0(last.resource)
  /\ exception = NoException
  /\ findTumorStage(last.resource) = StageNull
  /\ "tumor_stage" \notin DOMAIN _criterions

\* the stages the table lists a code of the cancerstaging.org system under,
\* whatever the case of its letters
ListedStages(chars) ==
  { stagesToCodes[k][1] :
      k \in { k \in DOMAIN stagesToCodes :
                \E j \in DOMAIN stagesToCodes[k][2] :
                  /\ stagesToCodes[k][2][j][1] = CANCERSTAGING_SYSTEM
                  /\ \E c \in DOMAIN stagesToCodes[k][2][j][2] :
                       toLowerCase(stagesToCodes[k][2][j][2][c]) = toLowerCase(chars) } }

\* C12: for a code of the cancerstaging.org system tumorStageForCode yields
\* the same stage for its upper-case and its lower-case spelling, the stage
\* the table lists it under; an unknown system, an unknown code or an
\* undefined argument yields undefined.
C12_StageLookupIgnoresCase ==
  lookup.fn = "tumorStageForCode" =>
    /\ (lookup.system = CANCERSTAGING_SYSTEM /\ lookup.code.kind = "string") =>
         /\ tumorStageForCode(lookup.system, Str(toUpperCase(lookup.code.chars))) = lookup.result
         /\ tumorStageForCode(lookup.system, Str(toLowerCase(lookup.code.chars))) = lookup.result
         /\ IF ListedStages(lookup.code.chars) = {}
              THEN lookup.result = StageUndefined
              ELSE /\ lookup.result.kind = "number"
                   /\ lookup.result.stage \in ListedStages(lookup.code.chars)
    /\ (lookup.system \in { Undefined, LOINC_SYSTEM } \/ lookup.code.kind = "undefined") =>
         lookup.result = StageUndefined

C12_Witness ==
  /\ lookup.fn = "tumorStageForCode"
  /\ lookup.system = CANCERSTAGING_SYSTEM
  /\ lookup.code = Str(<< "3", "a" >>)
  /\ lookup.result = StageNumber(3)
  /\ tumorStageForCode(CANCERSTAGING_SYSTEM, Str(<< "3", "A" >>)) = StageNumber(3)

\* the first of the pairs the loop has been over that lists the code of
\* pair j
FirstListing(j) ==
  CHOOSE i \in 1..j :
    /\ building.pairs[i].code = building.pairs[j].code
    /\ \A h \in 1..(i - 1) : building.pairs[h].code # building.pairs[j].code

\* C13: in the disease reverse index a code maps to the category of the
\* first table entry that listed it; a later entry listing it under another
\* category does not replace it, and a warning naming the code, the category
\* attempted and the category kept has been logged.
C13_FirstDiseaseRegistrationWins ==
  \A j \in 1..building.done :
    LET pair == building.pairs[j]
        first == building.pairs[FirstListing(j)]
    IN  /\ pair.code \in DOMAIN building.index
        /\ building.index[pair.code] = first.disease
        /\ pair.disease # first.disease =>
             InSeq(building.warnings, Warning(pair.code, pair.disease, first.disease))

C13_Witness ==
  /\ building.done = 2
  /\ building.pairs[1] = [disease |-> "pancreatic_cancer", code |-> "326072005"]
  /\ building.pairs[2] = [disease |-> "melanoma", code |-> "326072005"]
  /\ building.index["326072005"] = "pancreatic_cancer"
  /\ building.warnings = << Warning("326072005", "melanoma", "pancreatic_cancer") >>

\* C14: the constructor never throws, whatever the bundle holds: a
\* malformed resource contributes nothing and the scan goes on to the
\* entries after it.
C14_ConstructorNeverThrows ==
  /\ pc # "thrown"
  /\ (pc = "constructor" /\ ops > 0) => exception = NoException

C14_Witness ==
  /\ pc = "thrown"
  /\ exception = TypeError
  /\ last.op = "addMedicationStatement"
  /\ last.resource = MedicationStatement(NoCodeableConcept)

\* a coding list that is missing, is no array, or holds only entries without
\* a string system or a string code (null and non-object entries included)
NoUsableCoding(concept) ==
  \/ ~IsCodingArray(concept)
  \/ \A i \in DOMAIN concept.items :
       \/ concept.items[i].shape # "object"
       \/ ~IsString(concept.items[i].system)
       \/ ~IsString(concept.items[i].code)

HasNullCoding(concept) ==
  IsCodingArray(concept) /\ \E i \in DOMAIN concept.items : concept.items[i].shape = "null"

MalformedCondition(condition) ==
  /\ NoUsableCoding(condition.code)
  /\ condition.extension.isArray =>
       \A i \in DOMAIN condition.extension.items :
         NoUsableCoding(condition.extension.items[i].valueCodeableConcept)

\* C15: addCondition of a Condition with no code, no coding list, a coding
\* list that is no array or coding entries without a string system or a
\* string code (null and non-object entries included), and no better a
\* histology extension, does not throw and leaves the criteria and the
\* disease category as they were.
C15_MalformedConditionIsIgnored ==
  [][ (ops' = ops + 1 /\ last'.op = "addCondition" /\ MalformedCondition(last'.resource)) =>
        /\ exception' = NoException
        /\ pc' = pc
        /\ _criterions' = _criterions
        /\ typeOfDisease' = typeOfDisease
    ]_vars

C15_Witness ==
  /\ last.op = "addCondition"
  /\ MalformedCondition(last.resource)
  /\ HasNullCoding(last.resource.code)
  /\ exception = TypeError

\* none of the three rules of addObservation applies to the observation: it
\* has no Positive or Negative value coding to apply to a primary coding
\* list, no integer value for an ECOG or Karnofsky primary coding, and no
\* tumor stage
NoRuleApplies(observation) ==
  /\ \/ ~IsCodingArray(observation.code)
     \/ QualifierCodes(observation) \cap { POSITIVE_CODE, NEGATIVE_CODE } = {}
  /\ \/ observation.valueInteger = NoNumber
     \/ ~IsCodingArray(observation.code)
     \/ \A i \in DOMAIN observation.code.items :
          ~(/\ observation.code.items[i].system = LOINC_SYSTEM
            /\ observation.code.items[i].code \in { ECOG_CODE, KARNOFSKY_CODE })
  /\ findTumorStage(observation).kind # "number"

\* C16: addObservation does not throw, whatever the shape of the code, the
\* valueCodeableConcept and the valueInteger of the observation, and an
\* observation to which none of its three rules applies leaves the criteria
\* as they were.
C16_AddObservationNeverThrows ==
  [][ (ops' = ops + 1 /\ last'.op = "addObservation") =>
        /\ exception' = NoException
        /\ NoRuleApplies(last'.resource) => _criterions' = _criterions
    ]_vars

C16_Witness ==
  /\ last.op = "addObservation"
  /\ last.resource.valueCodeableConcept = NoCodingList
  /\ last.resource.code = CodeableConcept(<< FLT3 >>)
  /\ exception = TypeError

\* the number a string of decimal digits spells
RECURSIVE Spelled(_)
Spelled(chars) ==
  IF chars = << >> THEN 0
  ELSE 10 * Spelled(SubSeq(chars, 1, Len(chars) - 1)) + DigitValue(chars[Len(chars)])

IsNumeral(string) ==
  /\ string.kind = "string"
  /\ string.chars # << >>
  /\ \A i \in DOMAIN string.chars : IsDigit(string.chars[i])

AddMethods ==
  { "addCondition", "addObservation", "addMedicationStatement", "addProcedure", "addPatient" }

\* C18: a call of addCondition, addObservation, addMedicationStatement,
\* addProcedure or addPatient after toQuery returned a query leaves the
\* criterions, type_of_disease, zip_code and radius of that query as they
\* were.
C18_ReturnedQueryIsFrozen ==
  [][ (query.result = "returned" /\ \E op \in AddMethods : Called(op)) =>
        /\ query_criterions' = query_criterions
        /\ query'.type_of_disease = query.type_of_disease
        /\ query'.has_zip_code = query.has_zip_code
        /\ query'.zip_code = query.zip_code
        /\ query'.radius = query.radius
    ]_vars

C18_Witness ==
  /\ pc = "constructed"
  /\ query.result = "returned"
  /\ ops = 1
  /\ last.op = "addMedicationStatement"
  /\ exception = NoException
  /\ HasFlag(query_criterions, "lhrh_agonists", TRUE)

\* the observation has a primary coding of the LOINC system with the code
HasPrimary(observation, code) ==
  /\ IsCodingArray(observation.code)
  /\ \E i \in DOMAIN observation.code.items :
       /\ observation.code.items[i].system = LOINC_SYSTEM
       /\ observation.code.items[i].code = code

\* what addObservation does to a score criterion, by the claim
ScoreWritten(observation, code, key) ==
  IF observation.valueInteger # NoNumber /\ HasPrimary(observation, code)
    THEN HasFlag(_criterions', key, observation.valueInteger)
    ELSE SameCriterion(key)

\* C19: addObservation of an observation with an integer value writes it to
\* ecog for a LOINC primary coding 89247-1 and to karnofsky for a LOINC
\* primary coding 89243-0; with no integer value, or with no such primary
\* coding, the criterion stays as it was.
C19_ScoresFromIntegerValue ==
  [][ (ops' = ops + 1 /\ last'.op = "addObservation") =>
        /\ ScoreWritten(last'.resource, ECOG_CODE, "ecog")
        /\ ScoreWritten(last'.resource, KARNOFSKY_CODE, "karnofsky")
    ]_vars

C19_Witness ==
  /\ last.op = "addObservation"
  /\ last.resource.valueInteger = 2
  /\ HasPrimary(last.resource, ECOG_CODE)
  /\ exception = TypeError
  /\ "ecog" \notin DOMAIN _criterions

\* C20: sendQuery settles its promise by the reply alone: status 200 with a
\* JSON array resolves with a SearchSet; status 200 with a JSON object that
\* has a string error rejects with 'Error from service: <error>'; status 200
\* with any other body rejects with a message that starts 'Unable to parse
\* response from server'; any other status rejects with a message that
\* starts 'Server returned <status>'; a failed request rejects with the
\* transport error.
C20_ReplyDecidesOutcome ==
  (request.at = "settled" /\ request.posted) =>
    LET status == request.reply.status
        body == request.reply.body
        outcome == request.outcome
    IN  IF request.transport
          THEN outcome.state = "rejected" /\ outcome.error = TRANSPORT_ERROR
        ELSE IF status # 200
          THEN /\ outcome.state = "rejected"
               /\ outcome.head = STATUS_MESSAGE
               /\ outcome.status = status
        ELSE IF body.json /\ body.type = "array"
          THEN outcome.state = "resolved"
        ELSE IF body.json /\ body.type = "object" /\ body.error.kind = "string"
          THEN /\ outcome.state = "rejected"
               /\ outcome.head = SERVICE_MESSAGE
               /\ outcome.tail = body.error.chars
        ELSE outcome.state = "rejected" /\ outcome.head = PARSE_MESSAGE

C20_Witness ==
  /\ request.at = "settled"
  /\ request.posted
  /\ request.reply.status = 200
  /\ request.reply.body = JSONArray(<< Trial("object", "complete", Arms(<< "object", "null" >>)) >>)
  /\ request.outcome.state = "rejected"
  /\ request.outcome.error = TypeError

\* C21: convertToResearchStudy gives the result no status for a
\* recruiting_status the status mapping does not hold, no phase element for a
\* trial_phase the phase mapping does not hold and no primaryPurposeType for
\* a primary_purpose outside the known set; values it knows are mapped to
\* their FHIR codes.
C21_UnrecognisedValuesAreOmitted ==
  lookup.fn = "convertToResearchStudy" =>
    LET trial == lookup.trial
        result == lookup.result
    IN  /\ IF trial.recruiting_status \in DOMAIN recruitingStatusMapping
             THEN result.status = Assigned(recruitingStatusMapping[trial.recruiting_status])
             ELSE result.status.value = Undefined
        /\ IF trial.trial_phase \in DOMAIN phaseMapping
             THEN /\ result.phase.assigned
                  /\ result.phase.code = phaseMapping[trial.trial_phase]
             ELSE ~result.phase.assigned
        /\ result.primaryPurposeType.defined <=>
             convertToFhirConstant(trial.primary_purpose) \in primaryPurposes
        /\ result.primaryPurposeType.defined =>
             result.primaryPurposeType.code = convertToFhirConstant(trial.primary_purpose)

C21_Witness ==
  /\ lookup.fn = "convertToResearchStudy"
  /\ lookup.trial.trial_phase = "unknown phase"
  /\ lookup.trial.recruiting_status = "unknown value"
  /\ lookup.result.phase.assigned
  /\ lookup.result.phase.code = Undefined
  /\ lookup.result.phase.text = "unknown phase"

\* an observation one of whose primary codings is a staging code of the LOINC
\* system
IsLoincStaging(observation) ==
  /\ IsCodingArray(observation.code)
  /\ \E i \in DOMAIN observation.code.items :
       /\ observation.code.items[i].shape = "object"
       /\ observation.code.items[i].system = LOINC_SYSTEM
       /\ observation.code.items[i].code \in STAGE_LOINC_CODES

\* C22: for an observation whose primary coding list holds none of the three
\* staging codes of the LOINC system findTumorStage yields no stage and
\* addObservation leaves tumor_stage as it was, whatever the value is.
C22_NoStagingCodeNoStage ==
  [][ (ops' = ops + 1 /\ last'.op = "addObservation" /\ ~IsLoincStaging(last'.resource)) =>
        /\ findTumorStage(last'.resource).kind # "number"
        /\ SameCriterion("tumor_stage")
    ]_vars

C22_Witness ==
  /\ last.op = "addObservation"
  /\ ~IsLoincStaging(last.resource)
  /\ IsStaging(last.resource)
  /\ last.resource.valueString = "II"
  /\ HasFlag(_criterions, "tumor_stage", 2)

\* the last step was addPatient of a Patient born on the given day, with the
\* clock at the given instant
AgeRead(birthDate, today) ==
  /\ last.op = "addPatient"
  /\ last.resource.birthDate = Str(birthDate)
  /\ last.today = today

\* C23 as stated: for birth date 2002-02-01 the age criterion is 21 at
\* 2023-02-03T00:00:00Z and 20 at 2023-02-02T23:59:59.999Z.
C23_AgeOfFirstOfFebruary ==
  /\ AgeRead(<< "2", "0", "0", "2", "-", "0", "2", "-", "0", "1" >>, Instant(2023, 2, 3, 0)) =>
       HasFlag(_criterions, "age", 21)
  /\ AgeRead(<< "2", "0", "0", "2", "-", "0", "2", "-", "0", "1" >>,
             Instant(2023, 2, 2, LastMillisecond)) =>
       HasFlag(_criterions, "age", 20)

\* C23, amended: for birth date 2002-02-01 the age criterion is 21 at both
\* instants, which both follow the anniversary; it is for birth date
\* 2002-02-03 that the age is 21 at 2023-02-03T00:00:00Z and 20 one
\* millisecond earlier.
C23_AgeAroundAnniversary ==
  /\ \A today \in { Instant(2023, 2, 2, LastMillisecond), Instant(2023, 2, 3, 0) } :
       AgeRead(<< "2", "0", "0", "2", "-", "0", "2", "-", "0", "1" >>, today) =>
         HasFlag(_criterions, "age", 21)
  /\ AgeRead(<< "2", "0", "0", "2", "-", "0", "2", "-", "0", "3" >>, Instant(2023, 2, 3, 0)) =>
       HasFlag(_criterions, "age", 21)
  /\ AgeRead(<< "2", "0", "0", "2", "-", "0", "2", "-", "0", "3" >>,
             Instant(2023, 2, 2, LastMillisecond)) =>
       HasFlag(_criterions, "age", 20)

C23_Witness ==
  /\ AgeRead(<< "2", "0", "0", "2", "-", "0", "2", "-", "0", "1" >>,
             Instant(2023, 2, 2, LastMillisecond))
  /\ last.age = 21
  /\ HasFlag(_criterions, "age", 21)

\* the orders in which n table entries can be visited, and a table visited
\* in one of them
Orders(n) == { f \in [1..n -> 1..n] : \A i, j \in 1..n : i # j => f[i] # f[j] }

Reorder(table, f) == [i \in DOMAIN table |-> table[f[i]]]

\* two entries of the disease table list the code
Contested(table, code) ==
  \E k, l \in DOMAIN table :
    k # l /\ InSeq(table[k][2], code) /\ InSeq(table[l][2], code)

\* two results of findQueryFlagsForCode with the same set of flags
SameFlags(a, b) ==
  /\ a.kind = b.kind
  /\ { a.flags[i] : i \in DOMAIN a.flags } = { b.flags[i] : i \in DOMAIN b.flags }

\* C24: a second build from the same tables gives the same category as the
\* first for every code and the same flag set for every (system, code); the
\* category of a code that no two entries of the disease table list, and the
\* flag set of every (system, code), are the same in whatever order the
\* entries of the table are visited.
C24_IndexBuildIsDeterministic ==
  building.done = Len(building.pairs) =>
    /\ \A code \in TableCodes \cup LookupCodes :
         DiseaseIn(DiseaseIndex(building.table), code) = DiseaseIn(building.index, code)
    /\ \A f \in Orders(Len(building.table)) :
         LET index == DiseaseIndex(Reorder(building.table, f))
         IN  \A code \in TableCodes \cup LookupCodes :
               ~Contested(building.table, code) =>
                 DiseaseIn(index, code) = DiseaseIn(building.index, code)
    /\ \A system \in LookupSystems, code \in LookupCodes :
         SameFlags(FlagsIn(FlagIndex(ancoraToCodes), system, code),
                   findQueryFlagsForCode(system, code))
    /\ \A f \in Orders(Len(ancoraToCodes)) :
         LET index == FlagIndex(Reorder(ancoraToCodes, f))
         IN  \A system \in LookupSystems, code \in LookupCodes :
               SameFlags(FlagsIn(index, system, code), findQueryFlagsForCode(system, code))

C24_Witness ==
  /\ building.table = << << "pancreatic_cancer", << "326072005", "93655004" >> >>,
                         << "melanoma", << "326072005" >> >> >>
  /\ building.done = 3
  /\ building.index["326072005"] = "pancreatic_cancer"
  /\ building.index["93655004"] = "pancreatic_cancer"
  /\ DiseaseIn(DiseaseIndex(Reorder(building.table, << 2, 1 >>)), "326072005") = "melanoma"
  /\ DiseaseIn(DiseaseIndex(Reorder(building.table, << 2, 1 >>)), "93655004")
       = "pancreatic_cancer"

\* C25: at every point of every interleaving the fields of each pass are
\* those of its bundle scanned on its own up to there, the query it is
\* given and the criteria the query refers to are those of its bundle
\* alone, and the reverse index returns for every (system, code) what it
\* returned when the module was loaded, also after a caller changed an
\* array findQueryFlagsForCode gave it.
C25_PassesAreIsolated ==
  /\ \A p \in Passes :
       LET alone == Alone(passes[p].bundle, passes[p].at)
       IN  /\ passes[p]._criterions = alone._criterions
           /\ passes[p].typeOfDisease = alone.typeOfDisease
           /\ passes[p].exception = alone.exception
           /\ passes[p].answer.asked => passes[p].answer = Answer(alone)
  /\ \A system \in LookupSystems, code \in LookupCodes :
       FlagsIn(heap.sets, system, code) = findQueryFlagsForCode(system, code)

C25_Witness ==
  /\ passes["first"].bundle = << Condition(CodeableConcept(<< PANC >>), NoExtension),
                                 Biomarker(<< FLT3 >>, << POSITIVE >>) >>
  /\ passes["first"].at = 1
  /\ passes["second"].bundle = << Biomarker(<< FLT3 >>, << NEGATIVE >>),
                                  Condition(CodeableConcept(<< MELA >>), NoExtension) >>
  /\ passes["second"].answer.asked
  /\ passes["second"].answer.query.type_of_disease = "melanoma"
  /\ passes["second"].answer.criterions = [flt3_itd |-> FALSE]
  /\ passes["first"].typeOfDisease = "pancreatic_cancer"
  /\ passes["first"]._criterions = EmptyMap
  /\ heap.held = << << "flt3_itd", "ad_therapy" >> >>

\* the places in the response of the trials that pass isAncoraTrial, in
\* response order, and the entries the claim expects for them
ValidTrials(response) ==
  SelectSeq([i \in DOMAIN response |-> i], LAMBDA i : isAncoraTrial(response[i]))

EntriesOfValid(response) ==
  [k \in DOMAIN ValidTrials(response) |-> [id |-> k - 1, trial |-> ValidTrials(response)[k]]]

\* sendQuery got a 200 reply with a JSON array and gave it to
\* convertResponseToSearchSet
Converted ==
  /\ request.at \in { "updating", "settled" }
  /\ request.posted
  /\ ~request.transport
  /\ request.reply.status = 200
  /\ request.reply.body.json
  /\ request.reply.body.type = "array"

\* C26: with a backup service convertResponseToSearchSet calls
\* updateSearchSetEntries once, with the entries of exactly the trials that
\* pass isAncoraTrial, numbered 0, 1, 2, ... in response order, and the
\* SearchSet of these entries is delivered only once the update has
\* completed; without a backup service updateSearchSetEntries is not called
\* and the promise resolves with the same entries.
C26_UpdateBeforeSearchSet ==
  Converted =>
    LET entries == EntriesOfValid(request.reply.body.items)
    IN  IF request.ctgService
          THEN /\ request.update.calls = 1
               /\ request.update.entries = entries
               /\ request.at = "updating" => request.outcome = Pending
               /\ request.at = "settled" =>
                    /\ request.update.completed
                    /\ request.outcome = Resolved(entries, TRUE)
          ELSE /\ request.update.calls = 0
               /\ request.at = "settled"
               /\ request.outcome = Resolved(entries, FALSE)

C26_Witness ==
  /\ Converted
  /\ request.ctgService
  /\ request.reply.body.items = << Trial("object", "complete", Arms(<< "object" >>)),
                                   Trial("object", "complete", Arms(<< "object", "null" >>)) >>
  /\ request.at = "settled"
  /\ request.update.calls = 0
  /\ request.outcome.state = "rejected"
  /\ request.outcome.error = TypeError

\* the flags the table lists the histology codings of a Condition under
HistologyFlags(condition) ==
  IF condition.extension.isArray
    THEN UNION { PrimaryFlags(condition.extension.items[i].valueCodeableConcept) :
                   i \in { i \in DOMAIN condition.extension.items :
                             condition.extension.items[i].url = HISTOLOGY_URL } }
    ELSE {}

\* the places of the Positive and Negative qualifiers in the value coding
\* list of an observation
QualifierPlaces(observation) ==
  IF IsCodingArray(observation.valueCodeableConcept)
    THEN { i \in DOMAIN observation.valueCodeableConcept.items :
             /\ observation.valueCodeableConcept.items[i].system = SNOMED_CT_SYSTEM
             /\ observation.valueCodeableConcept.items[i].code
                  \in { POSITIVE_CODE, NEGATIVE_CODE } }
    ELSE {}

\* what a resource says of a flag by the tables: "true", "false", or "none"
\* when it does not map to the flag; in an observation the last qualifier of
\* the value coding list decides
FlagSaid(resource, flag) ==
  IF resource.resourceType = "Condition"
    THEN IF flag \in PrimaryFlags(resource.code) \cup HistologyFlags(resource)
           THEN "true" ELSE "none"
  ELSE IF resource.resourceType = "MedicationStatement"
    THEN IF flag \in PrimaryFlags(resource.medicationCodeableConcept) THEN "true" ELSE "none"
  ELSE IF resource.resourceType = "Procedure"
    THEN IF resource.status = "completed" /\ flag \in PrimaryFlags(resource.code)
           THEN "true" ELSE "none"
  ELSE IF resource.resourceType = "Observation"
    THEN IF flag \in PrimaryFlags(resource.code) /\ QualifierPlaces(resource) # {}
           THEN LET places == QualifierPlaces(resource)
                    latest == CHOOSE i \in places : \A j \in places : j <= i
                IN  IF resource.valueCodeableConcept.items[latest].code = POSITIVE_CODE
                      THEN "true" ELSE "false"
           ELSE "none"
  ELSE "none"

\* C27: each resource that is scanned or added without an exception leaves
\* every boolean flag it maps to at the value it says (true for a Condition,
\* a MedicationStatement and a completed Procedure, the value of the last
\* Positive or Negative qualifier for an observation) and every other flag
\* as it was, so that the value of a flag after a bundle is the one said by
\* the last resource that maps to it.
C27_LastResourceDecidesFlag ==
  [][ (/\ ops' = ops + 1
       /\ exception' = NoException
       /\ last'.op \in { "addCondition", "addObservation", "addMedicationStatement",
                         "addProcedure" }) =>
        \A flag \in Flags :
          IF FlagSaid(last'.resource, flag) = "none"
            THEN SameCriterion(flag)
            ELSE HasFlag(_criterions', flag, FlagSaid(last'.resource, flag) = "true")
    ]_vars

C27_Witness ==
  /\ ops = 2
  /\ pc = "constructor"
  /\ last.op = "addObservation"
  /\ last.resource = Biomarker(<< LHRH >>, << NEGATIVE >>)
  /\ _criterions = [lhrh_agonists |-> FALSE, ad_therapy |-> FALSE]

\* C28: a lookup over a bundle in which no disease category was resolved
\* posts nothing: sendQuery fails in toQuery, before fetch is called, the
\* promise rejects with the message about the missing type of disease and
\* no reply is ever awaited.
C28_NoRequestWithoutDisease ==
  (request.at # "none" /\ typeOfDisease = Null) =>
    /\ request.at = "settled"
    /\ ~request.posted
    /\ request.reply = NoReply
    /\ request.update.calls = 0
    /\ request.outcome = Rejected("Error", NO_DISEASE_MESSAGE, 0, "")

C28_Witness ==
  /\ request.at = "settled"
  /\ ~request.posted
  /\ typeOfDisease = Null
  /\ ops = 2
  /\ last.op = "constructor"
  /\ request.outcome.head = NO_DISEASE_MESSAGE

\* a call of toQuery or toString
Reads == last'.op \in { "toQuery", "toString" } /\ ops' = ops /\ pc = "constructed"

\* C29: toQuery and toString change no field of the object (criteria,
\* disease category, zip code, travel radius, phase, recruitment status),
\* whether they return or throw; a toQuery that follows a toQuery or a
\* toString with no add* call in between returns a query of the same
\* content; and the query holds the country, the category, the zip code and
\* the radius with its unit, with no field for phase or recruitment status.
C29_ReadsLeaveObjectUnchanged ==
  [][ Reads =>
        /\ This' = This
        /\ (last'.op = "toQuery" /\ last.op = "toQuery" /\ query.result = "returned") =>
             /\ query' = query
             /\ query_criterions' = query_criterions
        /\ (last'.op = "toQuery" /\ last.op = "toString" /\ lookup.valid) =>
             /\ query' = lookup.query
             /\ query_criterions' = lookup.criterions
        /\ (last'.op = "toQuery" /\ last.op = "toQuery" /\ query.result = "Error") =>
             query' = query
        /\ (last'.op = "toQuery" /\ query'.result = "returned") =>
             /\ DOMAIN query' = { "result", "country", "type_of_disease", "has_zip_code",
                                  "zip_code", "radius", "radius_unit" }
             /\ query' = toQuery(typeOfDisease, _zipCode, _travelRadius)
        /\ (last'.op = "toString" /\ lookup'.valid) =>
             lookup'.query = toQuery(typeOfDisease, _zipCode, _travelRadius)
    ]_vars

C29_Witness ==
  /\ last.op = "toQuery"
  /\ query.result = "returned"
  /\ lookup.fn = "toString"
  /\ lookup.valid
  /\ lookup.query = query
  /\ _phase = Str(<< "1" >>)
  /\ _recruitmentStatus = Str(<< "o", "p", "e", "n" >>)
  /\ _travelRadius = NoNumber
  /\ query.radius = DEFAULT_RADIUS

\* C30: the radius of every query toQuery returned is a finite number,
\* whatever the valueString of the travelRadius parameter was (missing, empty
\* and not numeric included).
C30_RadiusIsFinite ==
  query.result = "returned" => (query.radius # NaN /\ query.radius \in Nat)

C30_Witness ==
  /\ query.result = "returned"
  /\ supplied.travelRadius = Str(<< "f", "a", "r" >>)
  /\ _travelRadius = NaN
  /\ query.radius = NaN

====
